---- MODULE Spec2Model ----
(***************************************************************************)
(* A model of the suggestion lifecycle engine of the Sweep next-edit       *)
(* extension: the inline edit provider (request epochs, suppression gate,  *)
(* debounce, response handling, classification fan-out, suggestion queue)  *)
(* and the jump edit manager (pending jump edit, its invalidation and its  *)
(* acceptance), as seen from the extension host's single event loop.       *)
(*                                                                         *)
(* Texts are sequences of one-character strings; offsets are counted from  *)
(* 0 as in the source; a position is a record [line, character].           *)
(***************************************************************************)
EXTENDS Integers, Sequences, FiniteSets, TLC

\* ------------------------------------------------------------------ bounds

\* How many completion triggers (calls of provideInlineCompletionItems) a behaviour has.
MaxRequests == 2
\* How many completion triggers a behaviour of the debounce specification has: the
\* first call finds no delay left, so a third is needed to supersede a waiting one.
MaxCalls == 3
\* How many calls of acceptJumpEdit are suspended at editor.edit at a time.
MaxAccepts == 1
\* How many editor events (keystrokes, cursor moves, editor switches, changes of a
\* suppression condition, token cancellations) a behaviour has.
MaxEvents == 2

\* ------------------------------------------------------------------ values

Nil == [nil |-> TRUE]
NL == "\n"

Min(a, b) == IF a < b THEN a ELSE b
Max(a, b) == IF a > b THEN a ELSE b

Docs == {"A", "B"}
\* Document A is the one the user edits; B is an open document of a read-only file system.
Writable == {"A"}
\* The characters the user types.
TypedChars == {"a", NL}
\* The documents' texts when the extension is activated.
InitText == [d \in Docs |-> IF d = "A" THEN <<NL>> ELSE <<>>]

\* ------------------------------------------------------------------ strings

\* String.prototype.slice(a, b)
Slice(s, a, b) ==
    LET n == Len(s)
        from == IF a < 0 THEN Max(n + a, 0) ELSE Min(a, n)
        to == IF b < 0 THEN Max(n + b, 0) ELSE Min(b, n)
    IN  IF from >= to THEN <<>> ELSE SubSeq(s, from + 1, to)

StartsWith(s, p) == Len(p) <= Len(s) /\ SubSeq(s, 1, Len(p)) = p
EndsWith(s, p) == Len(p) <= Len(s) /\ SubSeq(s, Len(s) - Len(p) + 1, Len(s)) = p
Includes(s, c) == \E i \in 1..Len(s) : s[i] = c

\* text.replace(/^\n+|\n+$/g, "")
RECURSIVE trimNewlines(_)
trimNewlines(s) ==
    IF s = <<>> THEN s
    ELSE IF s[1] = NL THEN trimNewlines(Tail(s))
    ELSE IF s[Len(s)] = NL THEN trimNewlines(SubSeq(s, 1, Len(s) - 1))
    ELSE s

\* ------------------------------------------------------------------ TextDocument

lineCount(t) == 1 + Cardinality({i \in 1..Len(t) : t[i] = NL})
\* The line an offset 0..Len(t) lies on.
LineOfOffset(t, off) == Cardinality({i \in 1..off : t[i] = NL})
\* The offset at which line l (0 <= l < lineCount) starts.
LineStart(t, l) ==
    IF l = 0 THEN 0
    ELSE CHOOSE o \in 1..Len(t) : t[o] = NL /\ LineOfOffset(t, o) = l
\* The length of line l, without its line break.
LineLength(t, l) ==
    (IF l = lineCount(t) - 1 THEN Len(t) ELSE LineStart(t, l + 1) - 1) - LineStart(t, l)

\* document.positionAt(offset): the offset is clamped to the document.
positionAt(t, offset) ==
    LET o == Max(0, Min(offset, Len(t)))
        l == LineOfOffset(t, o)
    IN  [line |-> l, character |-> o - LineStart(t, l)]

\* document.offsetAt(position): the position is validated against the document.
offsetAt(t, pos) ==
    IF pos.line < 0 THEN 0
    ELSE IF pos.line >= lineCount(t) THEN Len(t)
    ELSE LineStart(t, pos.line) + Max(0, Min(pos.character, LineLength(t, pos.line)))

\* document.getText(new Range(a, b)) for two offsets of the document: a Range
\* orders its two ends.
getText(t, a, b) ==
    LET x == Max(0, Min(a, Len(t)))
        y == Max(0, Min(b, Len(t)))
    IN  Slice(t, Min(x, y), Max(x, y))

\* The positions of document text t.
Positions(t) == {positionAt(t, o) : o \in 0..Len(t)}

\* ------------------------------------------------------------------ candidates

\* An AutocompleteResult: [id, startIndex, endIndex, completion].
Cand(id, s, e, c) == [id |-> id, startIndex |-> s, endIndex |-> e, completion |-> c]

\* The candidates the completion service answers with. In the text <<NL, "a">> with
\* the cursor at offset 1, the first two are classified INLINE, the third JUMP, the
\* fourth SUPPRESS, and the fifth is dropped by normalization; the sixth has its
\* offsets inverted and the seventh has a negative offset.
CandidatePool ==
    { Cand(1, 1, 1, <<"b">>),
      Cand(2, 2, 2, <<"b">>),
      Cand(3, 0, 1, <<"b">>),
      Cand(4, 1, 1, <<"b", NL>>),
      Cand(5, 1, 2, <<"a">>),
      Cand(6, 2, 1, <<"b">>),
      Cand(7, -1, 0, <<"b">>) }

Candidate(id) == CHOOSE c \in CandidatePool : c.id = id

\* The responses of the completion service: one candidate, or one of these pairs.
Responses ==
    {<<c>> : c \in CandidatePool} \cup
    { <<Candidate(1), Candidate(2)>>,
      <<Candidate(2), Candidate(1)>>,
      <<Candidate(1), Candidate(3)>>,
      <<Candidate(3), Candidate(1)>>,
      <<Candidate(4), Candidate(3)>>,
      <<Candidate(5), Candidate(3)>> }

\* ------------------------------------------------------------------ edit display classifier

EDIT_RANGE_PADDING_ROWS == 2

Abs(x) == IF x < 0 THEN -x ELSE x

\* isFarFromCursor with a bug: the band is the edit's lines, without padding.
isFarFromUnpaddedEdit(in) ==
    in.cursorLine < Max(0, in.editStartLine) \/ in.cursorLine > in.editEndLine

\* isFarFromCursor of classifyEditDisplay.
isFarFromCursor(in) ==
    LET paddedStart == Max(0, in.editStartLine - EDIT_RANGE_PADDING_ROWS)
        paddedEnd == in.editEndLine + EDIT_RANGE_PADDING_ROWS
    IN  in.cursorLine < paddedStart \/ in.cursorLine > paddedEnd

\* classifyNearCursor with a bug: the single-line case is tested before the
\* multiline case.
classifySingleLineFirst(in) ==
    LET isBeforeCursor == in.startIndex < in.cursorOffset
        hasMultilineCompletion == Includes(in.completion, NL)
    IN  IF isBeforeCursor
        THEN [decision |-> "JUMP", reason |-> "before-cursor-single-line"]
        ELSE IF /\ hasMultilineCompletion
                /\ in.startIndex = in.cursorOffset
                /\ in.isOnSingleNewlineBoundary
                /\ Abs(in.cursorLine - in.editStartLine) <= 1
        THEN [decision |-> "SUPPRESS", reason |-> "single-newline-boundary"]
        ELSE [decision |-> "INLINE", reason |-> "inline-safe"]

\* classifyEditDisplay after the test of isFarFromCursor.
classifyNearCursor(in) ==
    LET lineDifference == Abs(in.cursorLine - in.editStartLine)
        isBeforeCursor == in.startIndex < in.cursorOffset
        hasMultilineCompletion == Includes(in.completion, NL)
    IN  IF isBeforeCursor /\ hasMultilineCompletion
        THEN [decision |-> "JUMP", reason |-> "before-cursor-multiline"]
        ELSE IF isBeforeCursor
        THEN [decision |-> "JUMP", reason |-> "before-cursor-single-line"]
        ELSE IF /\ hasMultilineCompletion
                /\ in.startIndex = in.cursorOffset
                /\ in.isOnSingleNewlineBoundary
                /\ lineDifference <= 1
        THEN [decision |-> "SUPPRESS", reason |-> "single-newline-boundary"]
        ELSE [decision |-> "INLINE", reason |-> "inline-safe"]

\* classifyEditDisplay(input) of the edit display classifier.
classifyEditDisplay(in) ==
    IF isFarFromCursor(in)
    THEN [decision |-> "JUMP", reason |-> "far-from-cursor"]
    ELSE classifyNearCursor(in)

\* ClassifyInDocument with a bug: the edit's end is passed as its start.
ClassifyByEndIndex(t, cursorPosition, result) ==
    LET cursorOffset == offsetAt(t, cursorPosition)
        atEndOfDocument == cursorOffset >= Len(t)
        isOnSingleNewlineBoundary ==
            /\ cursorOffset > 0
            /\ ~atEndOfDocument
            /\ t[cursorOffset] = NL
            /\ t[cursorOffset + 1] # NL
    IN  classifyEditDisplay(
            [cursorLine |-> cursorPosition.line,
             editStartLine |-> positionAt(t, result.startIndex).line,
             editEndLine |-> positionAt(t, result.endIndex).line,
             cursorOffset |-> cursorOffset,
             startIndex |-> result.endIndex,
             completion |-> result.completion,
             isOnSingleNewlineBoundary |-> isOnSingleNewlineBoundary])

\* JumpEditManager.classifyEditDisplay(document, cursorPosition, result)
ClassifyInDocument(t, cursorPosition, result) ==
    LET cursorOffset == offsetAt(t, cursorPosition)
        atEndOfDocument == cursorOffset >= Len(t)
        isOnSingleNewlineBoundary ==
            /\ cursorOffset > 0
            /\ ~atEndOfDocument
            /\ t[cursorOffset] = NL
            /\ t[cursorOffset + 1] # NL
    IN  classifyEditDisplay(
            [cursorLine |-> cursorPosition.line,
             editStartLine |-> positionAt(t, result.startIndex).line,
             editEndLine |-> positionAt(t, result.endIndex).line,
             cursorOffset |-> cursorOffset,
             startIndex |-> result.startIndex,
             completion |-> result.completion,
             isOnSingleNewlineBoundary |-> isOnSingleNewlineBoundary])

\* ------------------------------------------------------------------ normalization

\* The largest i in 1..maxLookahead with completion ending in followingText[0, i), else 0.
SuffixOverlap(completion, followingText, maxLookahead) ==
    LET fits == {i \in 1..maxLookahead : EndsWith(completion, Slice(followingText, 0, i))}
    IN  IF fits = {} THEN 0 ELSE CHOOSE i \in fits : \A j \in fits : j <= i

\* trimSuffixOverlap with a bug: a completion trimmed to nothing is returned.
trimSuffixOverlapToNothing(t, position, result) ==
    IF result.completion = <<>> THEN Nil
    ELSE
    LET cursorOffset == offsetAt(t, position)
        maxLookahead == Min(Len(t) - cursorOffset, Len(result.completion))
        followingText == getText(t, cursorOffset, cursorOffset + maxLookahead)
        overlap == SuffixOverlap(result.completion, followingText, maxLookahead)
        trimmedCompletion == Slice(result.completion, 0, Len(result.completion) - overlap)
    IN  IF maxLookahead <= 0 THEN result
        ELSE IF overlap = 0 THEN result
        ELSE [result EXCEPT !.completion = trimmedCompletion]

\* InlineEditProvider.trimSuffixOverlap(document, position, result)
trimSuffixOverlap(t, position, result) ==
    IF result.completion = <<>> THEN Nil
    ELSE
    LET cursorOffset == offsetAt(t, position)
        maxLookahead == Min(Len(t) - cursorOffset, Len(result.completion))
        followingText == getText(t, cursorOffset, cursorOffset + maxLookahead)
        overlap == SuffixOverlap(result.completion, followingText, maxLookahead)
        trimmedCompletion == Slice(result.completion, 0, Len(result.completion) - overlap)
    IN  IF maxLookahead <= 0 THEN result
        ELSE IF overlap = 0 THEN result
        ELSE IF trimmedCompletion = <<>> THEN Nil
        ELSE [result EXCEPT !.completion = trimmedCompletion]

\* trimmedResult of normalizeInlineResult: the result re-anchored at the cursor.
trimmedResult(result, cursorOffset, trimmedCompletion) ==
    [result EXCEPT !.startIndex = cursorOffset,
                   !.endIndex = cursorOffset,
                   !.completion = trimmedCompletion]

\* InlineEditProvider.normalizeInlineResult(document, position, result)
normalizeInlineResult(t, position, result) ==
    LET cursorOffset == offsetAt(t, position)
        prefixBeforeCursor == getText(t, result.startIndex, cursorOffset)
        trimmedCompletion == Slice(result.completion, Len(prefixBeforeCursor), Len(result.completion))
    IN  IF result.startIndex >= cursorOffset THEN trimSuffixOverlap(t, position, result)
        ELSE IF ~StartsWith(result.completion, prefixBeforeCursor) THEN result
        ELSE IF trimmedCompletion = <<>> THEN Nil
        ELSE trimSuffixOverlap(t, position,
                trimmedResult(result, cursorOffset, trimmedCompletion))

\* InlineEditProvider.isNoOpSuggestion(document, result)
isNoOpSuggestion(t, result) ==
    trimNewlines(getText(t, result.startIndex, result.endIndex)) = trimNewlines(result.completion)

\* ------------------------------------------------------------------ ghost-text extension

\* InlineEditProvider.extractInsertedTextAtCursor(originalText, updatedText, cursorOffset);
\* its null is the empty text (the callers only test the result for being empty or null).
extractInsertedTextAtCursor(originalText, updatedText, cursorOffset) ==
    LET prefix == Slice(originalText, 0, cursorOffset)
        suffix == Slice(originalText, cursorOffset, Len(originalText))
        insertedText == Slice(updatedText, Len(prefix), Len(updatedText) - Len(suffix))
    IN  IF ~StartsWith(updatedText, prefix) \/ ~EndsWith(updatedText, suffix) THEN <<>>
        ELSE insertedText

\* ------------------------------------------------------------------ state

VARIABLES
    text,                 \* document -> its text
    version,              \* document -> TextDocument.version
    cursor,               \* document -> its editor's selection.active
    activeEditor,         \* vscode.window.activeTextEditor: a document, or "none"
    cond,                 \* the suppression condition that holds now, or "none"
    requestCounter,       \* InlineEditProvider.requestCounter
    latestRequestId,      \* InlineEditProvider.latestRequestId
    inFlightRequest,      \* InlineEditProvider.inFlightRequest: Nil or [id, uri]
    lastRequestTimestamp, \* InlineEditProvider.lastRequestTimestamp: 0, or 1 once set
    lastInlineEdit,       \* InlineEditProvider.lastInlineEdit: Nil or [uri, line, character, version, id]
    queuedSuggestions,    \* InlineEditProvider.queuedSuggestions: Nil or [uri, suggestions]
    shouldConsumeQueuedSuggestion,
    pendingJumpEdit,      \* JumpEditManager.pendingJumpEdit: Nil or [result, uri, originCursorLine, docVersion]
    decorated,            \* document -> whether its editor carries the jump edit's decorations
    req,                  \* request id -> the state of that call of provideInlineCompletionItems
    shownItem,            \* the inline completion item the editor displays, or Nil
    acceptCommand,        \* the arguments of a sweep.acceptInlineEdit command on its way, or Nil
    jumpAccepts,          \* the calls of acceptJumpEdit suspended at editor.edit
    events,               \* how many editor events there have been
    input,                \* the arguments of the call of a pure function under study, or Nil
    output                \* what that call returned, or Nil before it

vars == <<text, version, cursor, activeEditor, cond, requestCounter, latestRequestId,
          inFlightRequest, lastRequestTimestamp, lastInlineEdit, queuedSuggestions,
          shouldConsumeQueuedSuggestion, pendingJumpEdit, decorated, req, shownItem,
          acceptCommand, jumpAccepts, events, input, output>>

\* The variables of the provider, the jump edit manager and the editor.
engine == <<text, version, cursor, activeEditor, cond, requestCounter, latestRequestId,
            inFlightRequest, lastRequestTimestamp, lastInlineEdit, queuedSuggestions,
            shouldConsumeQueuedSuggestion, pendingJumpEdit, decorated, req, shownItem,
            acceptCommand, jumpAccepts, events>>

Requests == 1..MaxCalls

\* The suppression conditions; the environment makes at most one of them hold at a time.
Conds == {"none", "disabled", "snoozed", "noApiKey", "windowUnfocused", "multiLineSelection",
          "recentMultiLineSelection", "editorTextUnfocused", "snippetMode", "bulkEdit",
          "excluded"}

\* tracker.getOriginalContent(uri): the text recorded when the tracker was constructed.
originalContent(d) == InitText[d]

IdleRequest ==
    [pc |-> "idle", doc |-> "A", position |-> [line |-> 0, character |-> 0],
     token |-> FALSE, aborted |-> FALSE, snapVersion |-> 0, snapContent |-> <<>>,
     results |-> <<>>, extended |-> FALSE, served |-> "none", ret |-> Nil,
     outcome |-> "none"]

\* The provider and jump edit manager fields, and the editors' decorations, that the
\* nested calls of one handler update one after the other; activeTextEditor is
\* vscode.window.activeTextEditor as the handler sees it.
Fields ==
    [lastInlineEdit |-> lastInlineEdit,
     queuedSuggestions |-> queuedSuggestions,
     shouldConsumeQueuedSuggestion |-> shouldConsumeQueuedSuggestion,
     pendingJumpEdit |-> pendingJumpEdit,
     decorated |-> decorated,
     shownItem |-> shownItem,
     activeTextEditor |-> activeEditor]

SetFields(s) ==
    /\ lastInlineEdit' = s.lastInlineEdit
    /\ queuedSuggestions' = s.queuedSuggestions
    /\ shouldConsumeQueuedSuggestion' = s.shouldConsumeQueuedSuggestion
    /\ pendingJumpEdit' = s.pendingJumpEdit
    /\ decorated' = s.decorated
    /\ shownItem' = s.shownItem

\* ------------------------------------------------------------------ suggestion queue

\* InlineEditProvider.clearSuggestionQueue
clearSuggestionQueue(s) ==
    [s EXCEPT !.queuedSuggestions = Nil, !.shouldConsumeQueuedSuggestion = FALSE]

\* InlineEditProvider.setSuggestionQueue(uri, suggestions)
setSuggestionQueue(s, uri, suggestions) ==
    IF Len(suggestions) = 0
    THEN [s EXCEPT !.queuedSuggestions = Nil, !.shouldConsumeQueuedSuggestion = FALSE]
    ELSE [s EXCEPT !.queuedSuggestions = [uri |-> uri, suggestions |-> suggestions],
                   !.shouldConsumeQueuedSuggestion = FALSE]

\* InlineEditProvider.clearInlineEdit(reason, {hideSuggestion})
clearInlineEdit(s, hideSuggestion) ==
    IF s.lastInlineEdit = Nil THEN s
    ELSE LET s1 == clearSuggestionQueue([s EXCEPT !.lastInlineEdit = Nil])
         IN  IF hideSuggestion THEN [s1 EXCEPT !.shownItem = Nil] ELSE s1

\* AdjustOne with a bug: the end of the suggestion is not shifted.
AdjustStartOnly(suggestion, acceptedSuggestion, adjustment) ==
    IF suggestion.startIndex < acceptedSuggestion.startIndex THEN suggestion
    ELSE [suggestion EXCEPT !.startIndex = @ + adjustment]

\* One queued suggestion after the accepted one was applied.
AdjustOne(suggestion, acceptedSuggestion, adjustment) ==
    IF suggestion.startIndex < acceptedSuggestion.startIndex THEN suggestion
    ELSE [suggestion EXCEPT !.startIndex = @ + adjustment, !.endIndex = @ + adjustment]

\* InlineEditProvider.adjustQueuedSuggestionsAfterAccept(acceptedSuggestion)
adjustQueuedSuggestionsAfterAccept(s, acceptedSuggestion) ==
    LET replacementLength == acceptedSuggestion.endIndex - acceptedSuggestion.startIndex
        adjustment == Len(acceptedSuggestion.completion) - replacementLength
        q == s.queuedSuggestions
        mapped == [i \in 1..Len(q.suggestions) |->
                     AdjustOne(q.suggestions[i], acceptedSuggestion, adjustment)]
    IN  IF q = Nil THEN s
        ELSE IF Len(q.suggestions) = 0 THEN s
        ELSE IF adjustment = 0 THEN s
        ELSE [s EXCEPT !.queuedSuggestions.suggestions =
                          SelectSeq(mapped, LAMBDA x : Len(x.completion) > 0)]

\* InlineEditProvider.handleInlineAccept(payload, acceptedSuggestion)
handleInlineAccept(s, acceptedSuggestion) ==
    LET s1 == IF s.lastInlineEdit # Nil /\ s.lastInlineEdit.id = acceptedSuggestion.id
              THEN [s EXCEPT !.lastInlineEdit = Nil] ELSE s
        s2 == adjustQueuedSuggestionsAfterAccept(s1, acceptedSuggestion)
    IN  IF s2.queuedSuggestions # Nil /\ Len(s2.queuedSuggestions.suggestions) > 0
        THEN [s2 EXCEPT !.shouldConsumeQueuedSuggestion = TRUE]
        ELSE clearSuggestionQueue(s2)

\* handleCursorMove with a bug: a queue of another document is kept.
handleCursorMoveKeepingQueue(s, d, position) ==
    LET lie == s.lastInlineEdit
    IN  IF lie = Nil THEN s
        ELSE IF d # lie.uri THEN clearInlineEdit(s, TRUE)
        ELSE IF \/ position.line # lie.line
                \/ position.character # lie.character
                \/ version[d] # lie.version
        THEN clearInlineEdit(s, TRUE)
        ELSE s

\* InlineEditProvider.handleCursorMove(document, position)
handleCursorMove(s, d, position) ==
    LET s1 == IF s.queuedSuggestions # Nil /\ s.queuedSuggestions.uri # d
              THEN clearSuggestionQueue(s) ELSE s
        lie == s1.lastInlineEdit
    IN  IF lie = Nil THEN s1
        ELSE IF d # lie.uri THEN clearInlineEdit(s1, TRUE)
        ELSE IF \/ position.line # lie.line
                \/ position.character # lie.character
                \/ version[d] # lie.version
        THEN clearInlineEdit(s1, TRUE)
        ELSE s1

\* ------------------------------------------------------------------ jump edit manager

\* JumpEditManager.clearDecorations: the decorations of the active editor are emptied.
clearDecorations(s) ==
    IF s.activeTextEditor = "none" THEN s
    ELSE [s EXCEPT !.decorated[s.activeTextEditor] = FALSE]

\* JumpEditManager.clearJumpEdit
clearJumpEdit(s) == clearDecorations([s EXCEPT !.pendingJumpEdit = Nil])

\* JumpEditManager.setPendingJumpEdit(document, result), applyDecorations included.
\* docVersion is not a field of the source: it records the version the document had
\* when the edit was set.
setPendingJumpEdit(s, d, result) ==
    LET s1 == clearJumpEdit(s)
    IN  IF s.activeTextEditor = "none" \/ s.activeTextEditor # d THEN s1
        ELSE [s1 EXCEPT !.pendingJumpEdit =
                            [result |-> result, uri |-> d,
                             originCursorLine |-> cursor[s.activeTextEditor].line,
                             docVersion |-> version[d]],
                        !.decorated[s.activeTextEditor] = TRUE]

\* JumpEditManager.handleCursorMove(position)
jumpHandleCursorMove(s, position) ==
    IF s.pendingJumpEdit = Nil THEN s
    ELSE IF position.line # s.pendingJumpEdit.originCursorLine THEN clearJumpEdit(s)
    ELSE s

\* jumpOnDidChangeTextDocument with a bug: the jump edit outlives the content change.
jumpOutlivesContentChange(s, d) == s

\* The onDidChangeTextDocument listener of the JumpEditManager constructor.
jumpOnDidChangeTextDocument(s, d) ==
    IF s.pendingJumpEdit # Nil /\ d = s.pendingJumpEdit.uri THEN clearJumpEdit(s) ELSE s

\* The onDidChangeActiveTextEditor listener of the JumpEditManager constructor.
jumpOnDidChangeActiveTextEditor(s) ==
    IF s.pendingJumpEdit # Nil THEN clearJumpEdit(s) ELSE s

\* ------------------------------------------------------------------ rendering

\* InlineEditProvider.buildCompletionItem(document, position, result): the fields
\* afterwards and the returned item (Nil for undefined).
buildCompletionItem(s, d, position, result) ==
    LET cursorOffset == offsetAt(text[d], position)
        s1 == IF s.lastInlineEdit = Nil \/ s.lastInlineEdit.id # result.id
              THEN clearInlineEdit(s, FALSE) ELSE s
        s2 == [s1 EXCEPT !.lastInlineEdit =
                  [uri |-> d, line |-> position.line, character |-> position.character,
                   version |-> version[d], id |-> result.id]]
    IN  IF result.startIndex < cursorOffset THEN [s |-> s, item |-> Nil]
        ELSE [s |-> s2,
              item |-> [id |-> result.id, startIndex |-> result.startIndex,
                        endIndex |-> result.endIndex, completion |-> result.completion,
                        uri |-> d]]

\* consumeQueuedSuggestion from the classification of a queued suggestion to its
\* return, for a suggestion that is not suppressed: s is the fields once the
\* suggestion is shifted off the queue.
ServeQueued(s, d, position, normalized, decision) ==
    IF decision = "JUMP"
    THEN [s |-> [setPendingJumpEdit(s, d, normalized)
                    EXCEPT !.shouldConsumeQueuedSuggestion = FALSE],
          item |-> Nil, served |-> "jump"]
    ELSE [s |-> buildCompletionItem([s EXCEPT !.shouldConsumeQueuedSuggestion = FALSE],
                                    d, position, normalized).s,
          item |-> buildCompletionItem([s EXCEPT !.shouldConsumeQueuedSuggestion = FALSE],
                                       d, position, normalized).item,
          served |-> "inline"]

\* Whether the loop of consumeQueuedSuggestion skips a queued suggestion, given what
\* normalizeInlineResult made of it.
SkipsQueued(t, position, normalized) ==
    IF normalized = Nil THEN TRUE
    ELSE IF isNoOpSuggestion(t, normalized) THEN TRUE
    ELSE ClassifyInDocument(t, position, normalized).decision = "SUPPRESS"

\* The loop of InlineEditProvider.consumeQueuedSuggestion over the queue, whose
\* suggestions are shifted off one by one.
RECURSIVE ConsumeLoop(_, _, _)
ConsumeLoop(s, d, position) ==
    IF s.queuedSuggestions.suggestions = <<>>
    THEN [s |-> clearSuggestionQueue(s), item |-> Nil, served |-> "none"]
    ELSE IF SkipsQueued(text[d], position,
                normalizeInlineResult(text[d], position, Head(s.queuedSuggestions.suggestions)))
    THEN ConsumeLoop([s EXCEPT !.queuedSuggestions.suggestions = Tail(@)], d, position)
    ELSE ServeQueued([s EXCEPT !.queuedSuggestions.suggestions = Tail(@)], d, position,
             normalizeInlineResult(text[d], position, Head(s.queuedSuggestions.suggestions)),
             ClassifyInDocument(text[d], position,
                 normalizeInlineResult(text[d], position,
                     Head(s.queuedSuggestions.suggestions))).decision)

\* InlineEditProvider.consumeQueuedSuggestion(document, position): the fields
\* afterwards, the returned item, and how a queued suggestion was served, if one was.
consumeQueuedSuggestion(s, d, position) ==
    IF s.queuedSuggestions = Nil THEN [s |-> s, item |-> Nil, served |-> "none"]
    ELSE IF Len(s.queuedSuggestions.suggestions) = 0
    THEN [s |-> s, item |-> Nil, served |-> "none"]
    ELSE IF s.queuedSuggestions.uri # d
    THEN [s |-> clearSuggestionQueue(s), item |-> Nil, served |-> "none"]
    ELSE ConsumeLoop(s, d, position)

\* FanOutDecided with a bug: a JUMP candidate takes over from the INLINE candidates
\* before it.
FanOutJumpTakesOver(acc, normalizedResult, decision) ==
    IF decision = "SUPPRESS" THEN acc
    ELSE IF decision = "JUMP"
    THEN IF acc.renderMode # "JUMP"
         THEN [acc EXCEPT !.renderMode = "JUMP", !.jumpResult = normalizedResult]
         ELSE acc
    ELSE IF acc.renderMode = "null" \/ acc.renderMode = "INLINE"
    THEN [acc EXCEPT !.renderMode = "INLINE", !.inlineResults = Append(@, normalizedResult)]
    ELSE acc

\* One iteration of the loop over the results in provideInlineCompletionItems, from
\* the classification on.
FanOutDecided(acc, normalizedResult, decision) ==
    IF decision = "SUPPRESS" THEN acc
    ELSE IF decision = "JUMP"
    THEN IF acc.renderMode = "null"
         THEN [acc EXCEPT !.renderMode = "JUMP", !.jumpResult = normalizedResult]
         ELSE acc
    ELSE IF acc.renderMode = "null" \/ acc.renderMode = "INLINE"
    THEN [acc EXCEPT !.renderMode = "INLINE", !.inlineResults = Append(@, normalizedResult)]
    ELSE acc

\* One iteration of the loop over the results, from the normalized result on.
FanOutNormalized(acc, t, position, normalizedResult) ==
    IF normalizedResult = Nil THEN acc
    ELSE IF isNoOpSuggestion(t, normalizedResult) THEN acc
    ELSE FanOutDecided(acc, normalizedResult,
                       ClassifyInDocument(t, position, normalizedResult).decision)

\* One iteration of the loop over the results in provideInlineCompletionItems.
FanOutStep(acc, t, position, result) ==
    FanOutNormalized(acc, t, position, normalizeInlineResult(t, position, result))

\* The loop over the results in provideInlineCompletionItems:
\* [renderMode, inlineResults, jumpResult].
RECURSIVE FanOut(_, _, _, _)
FanOut(acc, t, position, results) ==
    IF results = <<>> THEN acc
    ELSE FanOut(FanOutStep(acc, t, position, Head(results)), t, position, Tail(results))

\* What the loop over the results leaves for document text t and cursor position.
Classified(t, position, results) ==
    FanOut([renderMode |-> "null", inlineResults |-> <<>>, jumpResult |-> Nil],
           t, position, results)

\* provideInlineCompletionItems after the loop over the results, which left f: the
\* fields afterwards, the returned item and the branch taken.
RenderClassified(s, d, position, f) ==
    IF f.renderMode = "JUMP" /\ f.jumpResult # Nil
    THEN [s |-> setPendingJumpEdit(clearSuggestionQueue(s), d, f.jumpResult),
          item |-> Nil, outcome |-> "jump"]
    ELSE IF Len(f.inlineResults) = 0
    THEN [s |-> clearSuggestionQueue(clearJumpEdit(s)), item |-> Nil, outcome |-> "empty"]
    ELSE [s |-> buildCompletionItem(
                    clearJumpEdit(setSuggestionQueue(s, d, Tail(f.inlineResults))),
                    d, position, Head(f.inlineResults)).s,
          item |-> buildCompletionItem(
                    clearJumpEdit(setSuggestionQueue(s, d, Tail(f.inlineResults))),
                    d, position, Head(f.inlineResults)).item,
          outcome |-> "inline"]

\* provideInlineCompletionItems from clearSuggestionQueue("superseded by fresh
\* response") to its return.
Render(s, d, position, results) ==
    RenderClassified(clearSuggestionQueue(s), d, position,
                     Classified(text[d], position, results))

\* InlineEditProvider.tryBuildGhostTextExtension(snapshot, document, results); its
\* null is the empty list (the caller only tests the result for being empty or null).
tryBuildGhostTextExtension(r, results) ==
    LET d == req[r].doc
        firstResult == results[1]
        content == req[r].snapContent
        currentText == text[d]
        snapshotCursorOffset == Min(offsetAt(text[d], req[r].position), Len(content))
        userInsertedText ==
            extractInsertedTextAtCursor(content, currentText, snapshotCursorOffset)
        suggestedText ==
            Slice(content, 0, firstResult.startIndex) \o firstResult.completion
                \o Slice(content, firstResult.endIndex, Len(content))
        suggestedInsertedText ==
            extractInsertedTextAtCursor(content, suggestedText, snapshotCursorOffset)
        extendedCompletion ==
            Slice(suggestedInsertedText, Len(userInsertedText), Len(suggestedInsertedText))
        currentCursorOffset ==
            IF activeEditor = d
            THEN offsetAt(text[activeEditor], cursor[activeEditor])
            ELSE snapshotCursorOffset + Len(userInsertedText)
        adjustedFirst ==
            [firstResult EXCEPT !.startIndex = currentCursorOffset,
                                !.endIndex = currentCursorOffset,
                                !.completion = extendedCompletion]
        adjustmentOffset == Len(userInsertedText)
        adjustedRemainder ==
            [i \in 1..(Len(results) - 1) |->
                [results[i + 1] EXCEPT !.startIndex = @ + adjustmentOffset,
                                       !.endIndex = @ + adjustmentOffset]]
    IN  IF results = <<>> THEN <<>>
        ELSE IF userInsertedText = <<>> THEN <<>>
        ELSE IF suggestedInsertedText = <<>> THEN <<>>
        ELSE IF ~StartsWith(suggestedInsertedText, userInsertedText) THEN <<>>
        ELSE IF extendedCompletion = <<>> THEN <<>>
        ELSE <<adjustedFirst>> \o adjustedRemainder

\* ------------------------------------------------------------------ suppression gate

\* InlineEditProvider.getSuppressionReason(document) up to its first await.
GateSelection(d) ==
    IF activeEditor = "none" THEN "no active editor"
    ELSE IF activeEditor # d THEN "inactive document"
    ELSE IF cond = "windowUnfocused" THEN "window not focused"
    ELSE IF cond = "multiLineSelection" \/ cond = "recentMultiLineSelection"
    THEN "multi-line selection"
    ELSE "null"

\* getSuppressionReason between the answers for editorTextFocus and inSnippetMode.
GateFocus(d) ==
    IF cond = "editorTextUnfocused" THEN "editor not focused"
    ELSE IF d \notin Writable THEN "read-only document"
    ELSE "null"

\* getSuppressionReason from the answer for inSnippetMode to its return.
GateSnippet(d) ==
    IF cond = "snippetMode" THEN "snippet/template mode"
    ELSE IF cond = "bulkEdit" THEN "recent bulk edit"
    ELSE "null"

\* InlineEditProvider.isRequestStale(snapshot, token)
isRequestStale(r) ==
    IF req[r].token THEN TRUE
    ELSE IF activeEditor = "none" THEN TRUE
    ELSE IF cond = "windowUnfocused" THEN TRUE
    ELSE IF activeEditor # req[r].doc THEN TRUE
    ELSE IF version[activeEditor] # req[r].snapVersion THEN TRUE
    ELSE IF text[activeEditor] # req[r].snapContent THEN TRUE
    ELSE \/ cursor[activeEditor].line # req[r].position.line
         \/ cursor[activeEditor].character # req[r].position.character

\* InlineEditProvider.isLatestRequest(requestId)
isLatestRequest(r) == r = latestRequestId

\* ------------------------------------------------------------------ provideInlineCompletionItems

\* The provider, the jump edit manager and the editor's commands after activation.
ProviderInit ==
    /\ activeEditor = "A"
    /\ cond = "none"
    /\ requestCounter = 0
    /\ latestRequestId = 0
    /\ inFlightRequest = Nil
    /\ lastRequestTimestamp = 0
    /\ lastInlineEdit = Nil
    /\ queuedSuggestions = Nil
    /\ shouldConsumeQueuedSuggestion = FALSE
    /\ pendingJumpEdit = Nil
    /\ decorated = [d \in Docs |-> FALSE]
    /\ req = [r \in Requests |-> IdleRequest]
    /\ shownItem = Nil
    /\ acceptCommand = Nil
    /\ jumpAccepts = <<>>
    /\ events = 0

EngineInit ==
    /\ text = InitText
    /\ version = [d \in Docs |-> 1]
    /\ cursor = [d \in Docs |-> positionAt(InitText[d], Len(InitText[d]))]
    /\ ProviderInit

Init ==
    /\ EngineInit
    /\ input = Nil
    /\ output = Nil

\* A call that has returned: what it returned and why.
Returned(outcome, item) ==
    [IdleRequest EXCEPT !.pc = "done", !.outcome = outcome, !.ret = item]

\* The editor displays an item returned by a call whose token is not cancelled.
Display(s, r, item) ==
    IF item # Nil /\ ~req[r].token THEN [s EXCEPT !.shownItem = item] ELSE s

\* The finally block of provideInlineCompletionItems.
Finally(r) ==
    inFlightRequest' =
        IF inFlightRequest # Nil /\ inFlightRequest.id = r THEN Nil ELSE inFlightRequest

\* cancelInFlightRequest with a bug: the request in flight is forgotten, not aborted.
cancelWithoutAbort(rq) == rq

\* InlineEditProvider.cancelInFlightRequest: the requests after it.
cancelInFlightRequest(rq) ==
    IF inFlightRequest = Nil THEN rq
    ELSE [rq EXCEPT ![inFlightRequest.id].aborted = TRUE]

\* incrementedCounter with a bug: the value before the increment.
counterBeforeIncrement(counter) == counter

\* The value of ++this.requestCounter.
incrementedCounter(counter) == counter + 1

\* A completion trigger, the n-th of a behaviour at most:
\* provideInlineCompletionItems(document, position) up to its first suspension, inside
\* getSuppressionReason.
TriggerUpTo(d, n) ==
    /\ UNCHANGED <<events, input, output>>
    /\ requestCounter < n
    /\ LET requestId == incrementedCounter(requestCounter)
           reason == IF cond = "disabled" THEN "disabled"
                     ELSE IF cond = "snoozed" THEN "snoozed"
                     ELSE IF cond = "noApiKey" THEN "no api key"
                     ELSE GateSelection(d)
       IN  /\ requestCounter' = requestCounter + 1
           /\ latestRequestId' = requestId
           /\ inFlightRequest' = Nil
           /\ req' = [cancelInFlightRequest(req) EXCEPT ![requestId] =
                        IF reason # "null" THEN Returned("suppressed", Nil)
                        ELSE [IdleRequest EXCEPT !.pc = "gate1a", !.doc = d,
                                                 !.position = cursor[d]]]
    /\ UNCHANGED <<text, version, cursor, activeEditor, cond, lastRequestTimestamp,
                   lastInlineEdit, queuedSuggestions, shouldConsumeQueuedSuggestion,
                   pendingJumpEdit, decorated, shownItem, acceptCommand, jumpAccepts>>

Trigger(d) == TriggerUpTo(d, MaxRequests)

\* The first getSuppressionReason resumes with the answer for editorTextFocus.
GateFocusBeforeRequest(r) ==
    /\ UNCHANGED <<events, input, output>>
    /\ req[r].pc = "gate1a"
    /\ req' = [req EXCEPT ![r] =
                 IF GateFocus(req[r].doc) # "null" THEN Returned("suppressed", Nil)
                 ELSE [@ EXCEPT !.pc = "gate1b"]]
    /\ UNCHANGED <<text, version, cursor, activeEditor, cond, requestCounter,
                   latestRequestId, inFlightRequest, lastRequestTimestamp, lastInlineEdit,
                   queuedSuggestions, shouldConsumeQueuedSuggestion, pendingJumpEdit, decorated,
                   shownItem, acceptCommand, jumpAccepts>>

\* provideInlineCompletionItems from the return of consumeQueuedSuggestion, which
\* gave consumed, into waitForDebounce, where the call either finds no delay left and
\* issues the request, or suspends on the timer.
AfterQueue(r, wait, consumed) ==
    IF consumed.item # Nil
    THEN /\ req' = [req EXCEPT ![r] = Returned("queued", consumed.item)]
         /\ SetFields(Display(consumed.s, r, consumed.item))
         /\ UNCHANGED <<inFlightRequest, lastRequestTimestamp>>
    ELSE /\ SetFields(consumed.s)
         /\ IF req[r].token
            THEN /\ req' = [req EXCEPT ![r] = Returned("cancelled", Nil)]
                 /\ UNCHANGED <<inFlightRequest, lastRequestTimestamp>>
            ELSE /\ lastRequestTimestamp' = 1
                 /\ IF wait
                    THEN /\ req' = [req EXCEPT ![r].pc = "debounce",
                                               ![r].snapVersion = version[req[r].doc],
                                               ![r].snapContent = text[req[r].doc],
                                               ![r].served = consumed.served]
                         /\ UNCHANGED inFlightRequest
                    ELSE IF ~isLatestRequest(r)
                    THEN /\ req' = [req EXCEPT ![r] = Returned("superseded", Nil)]
                         /\ UNCHANGED inFlightRequest
                    ELSE /\ req' = [req EXCEPT ![r].pc = "network",
                                               ![r].snapVersion = version[req[r].doc],
                                               ![r].snapContent = text[req[r].doc],
                                               ![r].served = consumed.served]
                         /\ inFlightRequest' = [id |-> r, uri |-> req[r].doc]

\* Why the call returns between the first getSuppressionReason and the queue, or "null".
ReasonBeforeQueue(d) ==
    IF GateSnippet(d) # "null" THEN "suppressed"
    ELSE IF cond = "excluded" THEN "excluded"
    ELSE IF text[d] = originalContent(d) THEN "unchanged"
    ELSE "null"

\* The first getSuppressionReason resumes with the answer for inSnippetMode; the call
\* goes on to the snapshot, the queue, and into waitForDebounce.
GateSnippetBeforeRequest(r, wait) ==
    /\ UNCHANGED <<events, input, output>>
    /\ req[r].pc = "gate1b"
    /\ lastRequestTimestamp = 0 => ~wait
    /\ IF ReasonBeforeQueue(req[r].doc) # "null"
       THEN /\ req' = [req EXCEPT ![r] = Returned(ReasonBeforeQueue(req[r].doc), Nil)]
            /\ UNCHANGED <<inFlightRequest, lastRequestTimestamp, lastInlineEdit,
                           queuedSuggestions, shouldConsumeQueuedSuggestion,
                           pendingJumpEdit, decorated, shownItem>>
       ELSE IF shouldConsumeQueuedSuggestion
       THEN AfterQueue(r, wait, consumeQueuedSuggestion(Fields, req[r].doc, req[r].position))
       ELSE AfterQueue(r, wait, [s |-> Fields, item |-> Nil, served |-> "none"])
    /\ UNCHANGED <<text, version, cursor, activeEditor, cond, requestCounter,
                   latestRequestId, acceptCommand, jumpAccepts>>

\* DebounceEnds with a bug: the call does not ask whether it is still the latest.
DebounceEndsForAnyEpoch(r) ==
    /\ UNCHANGED <<events, input, output>>
    /\ req[r].pc = "debounce"
    /\ IF req[r].token
       THEN /\ req' = [req EXCEPT ![r] = Returned("cancelled in wait", Nil)]
            /\ UNCHANGED inFlightRequest
       ELSE /\ req' = [req EXCEPT ![r].pc = "network"]
            /\ inFlightRequest' = [id |-> r, uri |-> req[r].doc]
    /\ UNCHANGED <<text, version, cursor, activeEditor, cond, requestCounter,
                   latestRequestId, lastRequestTimestamp, lastInlineEdit,
                   queuedSuggestions, shouldConsumeQueuedSuggestion, pendingJumpEdit, decorated,
                   shownItem, acceptCommand, jumpAccepts>>

\* DebounceEnds with a bug: the timer of the wait never fires, the wait ends only by
\* the cancellation of the token.
DebounceEndsOnlyByCancellation(r) ==
    /\ UNCHANGED <<events, input, output>>
    /\ req[r].pc = "debounce"
    /\ req[r].token
    /\ req' = [req EXCEPT ![r] = Returned("cancelled in wait", Nil)]
    /\ UNCHANGED <<text, version, cursor, activeEditor, cond, requestCounter,
                   latestRequestId, inFlightRequest, lastRequestTimestamp, lastInlineEdit,
                   queuedSuggestions, shouldConsumeQueuedSuggestion, pendingJumpEdit, decorated,
                   shownItem, acceptCommand, jumpAccepts>>

\* The debounce wait ends, by its timer or by the cancellation of the token.
DebounceEnds(r) ==
    /\ UNCHANGED <<events, input, output>>
    /\ req[r].pc = "debounce"
    /\ IF req[r].token
       THEN /\ req' = [req EXCEPT ![r] = Returned("cancelled in wait", Nil)]
            /\ UNCHANGED inFlightRequest
       ELSE IF ~isLatestRequest(r)
       THEN /\ req' = [req EXCEPT ![r] = Returned("superseded in wait", Nil)]
            /\ UNCHANGED inFlightRequest
       ELSE /\ req' = [req EXCEPT ![r].pc = "network"]
            /\ inFlightRequest' = [id |-> r, uri |-> req[r].doc]
    /\ UNCHANGED <<text, version, cursor, activeEditor, cond, requestCounter,
                   latestRequestId, lastRequestTimestamp, lastInlineEdit,
                   queuedSuggestions, shouldConsumeQueuedSuggestion, pendingJumpEdit, decorated,
                   shownItem, acceptCommand, jumpAccepts>>

\* The outcomes of api.getAutocomplete: a list of results, or "null" for a request
\* that was aborted, failed, or found nothing.
Answers == Responses \cup {<<>>}

\* ResponseOutcome with a bug: an aborted request's response is not dropped.
ResponseOutcomeOfAborted(r, responseResults, extendedResults) ==
    IF responseResults = <<>> THEN "failed"
    ELSE IF cond = "disabled" \/ req[r].token THEN "dropped"
    ELSE IF ~isLatestRequest(r) /\ Len(extendedResults) = 0 THEN "irreconcilable"
    ELSE IF isLatestRequest(r) /\ isRequestStale(r) THEN "stale"
    ELSE IF GateSelection(req[r].doc) # "null" THEN "render-suppressed"
    ELSE "null"

\* Why the call returns between the response and the first await of the second
\* getSuppressionReason, or "null".
ResponseOutcome(r, responseResults, extendedResults) ==
    IF responseResults = <<>> THEN "failed"
    ELSE IF cond = "disabled" \/ req[r].token \/ req[r].aborted THEN "dropped"
    ELSE IF ~isLatestRequest(r) /\ Len(extendedResults) = 0 THEN "irreconcilable"
    ELSE IF isLatestRequest(r) /\ isRequestStale(r) THEN "stale"
    ELSE IF GateSelection(req[r].doc) # "null" THEN "render-suppressed"
    ELSE "null"

\* api.getAutocomplete settles; the call goes on to the second getSuppressionReason
\* and suspends in it.
Respond(r, responseResults) ==
    /\ UNCHANGED <<events, input, output>>
    /\ req[r].pc = "network"
    /\ LET extendedResults == tryBuildGhostTextExtension(r, responseResults)
           results == IF isLatestRequest(r) THEN responseResults ELSE extendedResults
           outcome == ResponseOutcome(r, responseResults, extendedResults)
       IN  IF outcome # "null"
           THEN /\ req' = [req EXCEPT ![r] = Returned(outcome, Nil)]
                /\ Finally(r)
           ELSE /\ req' = [req EXCEPT ![r].pc = "gate2a", ![r].results = results,
                                      ![r].extended = ~isLatestRequest(r)]
                /\ UNCHANGED inFlightRequest
    /\ UNCHANGED <<text, version, cursor, activeEditor, cond, requestCounter,
                   latestRequestId, lastRequestTimestamp, lastInlineEdit,
                   queuedSuggestions, shouldConsumeQueuedSuggestion, pendingJumpEdit, decorated,
                   shownItem, acceptCommand, jumpAccepts>>

\* The second getSuppressionReason resumes with the answer for editorTextFocus.
GateFocusBeforeRender(r) ==
    /\ UNCHANGED <<events, input, output>>
    /\ req[r].pc = "gate2a"
    /\ IF GateFocus(req[r].doc) # "null"
       THEN /\ req' = [req EXCEPT ![r] = Returned("render-suppressed", Nil)]
            /\ Finally(r)
       ELSE /\ req' = [req EXCEPT ![r].pc = "gate2b"]
            /\ UNCHANGED inFlightRequest
    /\ UNCHANGED <<text, version, cursor, activeEditor, cond, requestCounter,
                   latestRequestId, lastRequestTimestamp, lastInlineEdit,
                   queuedSuggestions, shouldConsumeQueuedSuggestion, pendingJumpEdit, decorated,
                   shownItem, acceptCommand, jumpAccepts>>

\* The call returns what rendering gave, and the editor displays it.
Rendered(r, rendered) ==
    /\ req' = [req EXCEPT ![r] = Returned(rendered.outcome, rendered.item)]
    /\ SetFields(Display(rendered.s, r, rendered.item))

\* The second getSuppressionReason resumes with the answer for inSnippetMode; the
\* call classifies the results, renders, and returns.
GateSnippetBeforeRender(r) ==
    /\ UNCHANGED <<events, input, output>>
    /\ req[r].pc = "gate2b"
    /\ IF GateSnippet(req[r].doc) # "null"
       THEN /\ req' = [req EXCEPT ![r] = Returned("render-suppressed", Nil)]
            /\ UNCHANGED <<lastInlineEdit, queuedSuggestions,
                           shouldConsumeQueuedSuggestion, pendingJumpEdit, decorated, shownItem>>
       ELSE Rendered(r, Render(Fields, req[r].doc, req[r].position, req[r].results))
    /\ Finally(r)
    /\ UNCHANGED <<text, version, cursor, activeEditor, cond, requestCounter,
                   latestRequestId, lastRequestTimestamp, acceptCommand, jumpAccepts>>

\* The editor cancels the token of a call; a call awaiting the service aborts its
\* controller in its onCancellationRequested listener.
CancelToken(r) ==
    /\ events < MaxEvents
    /\ events' = events + 1
    /\ UNCHANGED <<input, output>>
    /\ req[r].pc \notin {"idle", "done"}
    /\ ~req[r].token
    /\ req' = [req EXCEPT ![r].token = TRUE,
                          ![r].aborted =
                              IF req[r].pc \in {"network", "gate2a", "gate2b"} THEN TRUE ELSE @]
    /\ UNCHANGED <<text, version, cursor, activeEditor, cond, requestCounter,
                   latestRequestId, inFlightRequest, lastRequestTimestamp, lastInlineEdit,
                   queuedSuggestions, shouldConsumeQueuedSuggestion, pendingJumpEdit, decorated,
                   shownItem, acceptCommand, jumpAccepts>>

\* ------------------------------------------------------------------ editor events

\* Text t with [a, b) replaced by c (a Range orders its ends and is clamped).
ReplaceRange(t, a, b, c) ==
    LET x == Max(0, Min(a, Len(t)))
        y == Max(0, Min(b, Len(t)))
    IN  Slice(t, 0, Min(x, y)) \o c \o Slice(t, Max(x, y), Len(t))

\* What every content change of document d does besides changing the text: the
\* JumpEditManager's listener runs, and the editor drops the item it displays.
OnContentChange(s, d) ==
    LET s1 == jumpOnDidChangeTextDocument(s, d)
    IN  IF s1.shownItem # Nil /\ s1.shownItem.uri = d THEN [s1 EXCEPT !.shownItem = Nil]
        ELSE s1

\* The user types character c at the cursor of the active editor: one content change.
Type(c) ==
    /\ events < MaxEvents
    /\ events' = events + 1
    /\ UNCHANGED <<input, output>>
    /\ activeEditor \in Writable
    /\ LET d == activeEditor
           o == offsetAt(text[d], cursor[d])
       IN  /\ text' = [text EXCEPT ![d] = ReplaceRange(@, o, o, <<c>>)]
           /\ version' = [version EXCEPT ![d] = @ + 1]
           /\ SetFields(OnContentChange(Fields, d))
    /\ UNCHANGED <<cursor, activeEditor, cond, requestCounter, latestRequestId,
                   inFlightRequest, lastRequestTimestamp, req, acceptCommand, jumpAccepts>>

\* The handleCursorMove of activate: the provider's, then the jump edit manager's.
OnCursorMove(s, d, position) ==
    jumpHandleCursorMove(handleCursorMove(s, d, position), position)

\* onDidChangeTextEditorSelection of the active editor, of document d: its cursor is
\* now at position.
SelectionChange(d, position) ==
    /\ events < MaxEvents
    /\ events' = events + 1
    /\ UNCHANGED <<input, output>>
    /\ d = activeEditor
    /\ position \in Positions(text[d])
    /\ cursor' = [cursor EXCEPT ![d] = position]
    /\ SetFields(OnCursorMove(Fields, d, position))
    /\ UNCHANGED <<text, version, activeEditor, cond, requestCounter, latestRequestId,
                   inFlightRequest, lastRequestTimestamp, req, acceptCommand, jumpAccepts>>

\* The fields when the listeners of onDidChangeActiveTextEditor run: e is the active
\* editor now; the editor that was active stays visible with its decorations, in
\* another editor group, or is hidden and loses them.
EditorSwitched(e, stays) ==
    [Fields EXCEPT !.activeTextEditor = e,
                   !.shownItem = Nil,
                   !.decorated = IF activeEditor = "none" \/ stays THEN @
                                 ELSE [@ EXCEPT ![activeEditor] = FALSE]]

\* onDidChangeActiveTextEditor: the JumpEditManager's listener, then activate's.
SwitchEditor(e, stays) ==
    /\ events < MaxEvents
    /\ events' = events + 1
    /\ UNCHANGED <<input, output>>
    /\ e # activeEditor
    /\ activeEditor' = e
    /\ LET s1 == jumpOnDidChangeActiveTextEditor(EditorSwitched(e, stays))
       IN  SetFields(IF e = "none" THEN s1 ELSE OnCursorMove(s1, e, cursor[e]))
    /\ UNCHANGED <<text, version, cursor, cond, requestCounter, latestRequestId,
                   inFlightRequest, lastRequestTimestamp, req, acceptCommand, jumpAccepts>>

\* A suppression condition starts or stops holding.
SetCond(c) ==
    /\ events < MaxEvents
    /\ events' = events + 1
    /\ UNCHANGED <<input, output>>
    /\ c # cond
    /\ cond' = c
    /\ UNCHANGED <<text, version, cursor, activeEditor, requestCounter, latestRequestId,
                   inFlightRequest, lastRequestTimestamp, lastInlineEdit,
                   queuedSuggestions, shouldConsumeQueuedSuggestion, pendingJumpEdit, decorated,
                   req, shownItem, acceptCommand, jumpAccepts>>

\* The user accepts the displayed inline item: the editor applies it and sends the
\* item's command, sweep.acceptInlineEdit.
UserAcceptsInline ==
    /\ UNCHANGED <<events, input, output>>
    /\ shownItem # Nil
    /\ activeEditor = shownItem.uri
    /\ acceptCommand = Nil
    /\ LET d == activeEditor
       IN  /\ text' = [text EXCEPT ![d] = ReplaceRange(@, shownItem.startIndex,
                                              shownItem.endIndex, shownItem.completion)]
           /\ version' = [version EXCEPT ![d] = @ + 1]
           /\ SetFields(OnContentChange(Fields, d))
    /\ acceptCommand' = [id |-> shownItem.id, startIndex |-> shownItem.startIndex,
                         endIndex |-> shownItem.endIndex,
                         completion |-> shownItem.completion]
    /\ UNCHANGED <<cursor, activeEditor, cond, requestCounter, latestRequestId,
                   inFlightRequest, lastRequestTimestamp, req, jumpAccepts>>

\* The command sweep.acceptInlineEdit runs: handleInlineAccept.
AcceptInlineEdit ==
    /\ UNCHANGED <<events, input, output>>
    /\ acceptCommand # Nil
    /\ SetFields(handleInlineAccept(Fields, acceptCommand))
    /\ acceptCommand' = Nil
    /\ UNCHANGED <<text, version, cursor, activeEditor, cond, requestCounter,
                   latestRequestId, inFlightRequest, lastRequestTimestamp, req, jumpAccepts>>

\* ------------------------------------------------------------------ jump edit commands

\* The command sweep.acceptJumpEdit: acceptJumpEdit up to its await of editor.edit,
\* with at most n calls suspended at a time.
AcceptJumpEditUpTo(n) ==
    /\ UNCHANGED <<events, input, output>>
    /\ pendingJumpEdit # Nil
    /\ IF activeEditor = "none" \/ activeEditor # pendingJumpEdit.uri
       THEN /\ SetFields(clearJumpEdit(Fields))
            /\ UNCHANGED jumpAccepts
       ELSE /\ Len(jumpAccepts) < n
            /\ jumpAccepts' = Append(jumpAccepts,
                                [pendingJumpEdit |-> pendingJumpEdit,
                                 version |-> version[pendingJumpEdit.uri],
                                 startLine |-> positionAt(text[pendingJumpEdit.uri],
                                                  pendingJumpEdit.result.startIndex).line,
                                 success |-> "pending"])
            /\ UNCHANGED <<lastInlineEdit, queuedSuggestions,
                           shouldConsumeQueuedSuggestion, pendingJumpEdit, decorated, shownItem>>
    /\ UNCHANGED <<text, version, cursor, activeEditor, cond, requestCounter,
                   latestRequestId, inFlightRequest, lastRequestTimestamp, req,
                   acceptCommand>>

AcceptJumpEdit == AcceptJumpEditUpTo(MaxAccepts)

\* An editor that applies an edit whatever the version of the document is.
editAppliedAtAnyVersion(documentVersion, editVersion) == TRUE

\* editor.edit succeeds if the document still has the version the edit was made for.
editApplied(documentVersion, editVersion) == documentVersion = editVersion

\* The editor settles the edit of the i-th suspended acceptJumpEdit: it applies the
\* replacement if the document still has the version the edit was made for.
EditSettles(i) ==
    /\ UNCHANGED <<events, input, output>>
    /\ i \in 1..Len(jumpAccepts)
    /\ jumpAccepts[i].success = "pending"
    /\ \A j \in 1..(i - 1) : jumpAccepts[j].success # "pending"
    /\ LET e == jumpAccepts[i]
           d == e.pendingJumpEdit.uri
           result == e.pendingJumpEdit.result
       IN  IF editApplied(version[d], e.version)
           THEN /\ text' = [text EXCEPT ![d] = ReplaceRange(@, result.startIndex,
                                                   result.endIndex, result.completion)]
                /\ version' = [version EXCEPT ![d] = @ + 1]
                /\ SetFields(OnContentChange(Fields, d))
                /\ jumpAccepts' = [jumpAccepts EXCEPT ![i].success = "true"]
           ELSE /\ jumpAccepts' = [jumpAccepts EXCEPT ![i].success = "false"]
                /\ UNCHANGED <<text, version, lastInlineEdit, queuedSuggestions,
                               shouldConsumeQueuedSuggestion, pendingJumpEdit, decorated, shownItem>>
    /\ UNCHANGED <<cursor, activeEditor, cond, requestCounter, latestRequestId,
                   inFlightRequest, lastRequestTimestamp, req, acceptCommand>>

\* The number of lines of the completion that carry content.
ContentLineCount(completion) ==
    LET insertedLines == 1 + Cardinality({k \in 1..Len(completion) : completion[k] = NL})
    IN  IF completion # <<>> /\ completion[Len(completion)] = NL
        THEN insertedLines - 1 ELSE insertedLines

\* acceptJumpEdit resumes after editor.edit: it moves the cursor if the edit was
\* applied, and clears the jump edit.
AcceptJumpEditResumes(i) ==
    /\ UNCHANGED <<events, input, output>>
    /\ i \in 1..Len(jumpAccepts)
    /\ jumpAccepts[i].success # "pending"
    /\ LET e == jumpAccepts[i]
           d == e.pendingJumpEdit.uri
           newCursorLine == e.startLine
                            + Max(0, ContentLineCount(e.pendingJumpEdit.result.completion) - 1)
           safeLine == Min(newCursorLine, lineCount(text[d]) - 1)
           newPos == [line |-> safeLine, character |-> LineLength(text[d], safeLine)]
       IN  /\ cursor' = IF e.success = "true" THEN [cursor EXCEPT ![d] = newPos] ELSE cursor
           /\ SetFields(clearJumpEdit(Fields))
           /\ jumpAccepts' = [k \in 1..(Len(jumpAccepts) - 1) |->
                                 IF k < i THEN jumpAccepts[k] ELSE jumpAccepts[k + 1]]
    /\ UNCHANGED <<text, version, activeEditor, cond, requestCounter, latestRequestId,
                   inFlightRequest, lastRequestTimestamp, req, acceptCommand>>

\* The command sweep.dismissJumpEdit.
DismissJumpEdit ==
    /\ UNCHANGED <<events, input, output>>
    /\ pendingJumpEdit # Nil
    /\ SetFields(clearJumpEdit(Fields))
    /\ UNCHANGED <<text, version, cursor, activeEditor, cond, requestCounter,
                   latestRequestId, inFlightRequest, lastRequestTimestamp, req,
                   acceptCommand, jumpAccepts>>

\* ------------------------------------------------------------------ specification

Next ==
    \/ \E d \in Docs : Trigger(d)
    \/ \E r \in Requests : GateFocusBeforeRequest(r)
    \/ \E r \in Requests, wait \in BOOLEAN : GateSnippetBeforeRequest(r, wait)
    \/ \E r \in Requests : DebounceEnds(r)
    \/ \E r \in Requests, a \in Answers : Respond(r, a)
    \/ \E r \in Requests : GateFocusBeforeRender(r)
    \/ \E r \in Requests : GateSnippetBeforeRender(r)
    \/ \E r \in Requests : CancelToken(r)
    \/ \E c \in TypedChars : Type(c)
    \/ \E d \in Docs : \E position \in Positions(text[d]) : SelectionChange(d, position)
    \/ \E e \in Docs \cup {"none"}, stays \in BOOLEAN : SwitchEditor(e, stays)
    \/ \E c \in Conds : SetCond(c)
    \/ UserAcceptsInline
    \/ AcceptInlineEdit
    \/ AcceptJumpEdit
    \/ \E i \in 1..MaxAccepts : EditSettles(i)
    \/ \E i \in 1..MaxAccepts : AcceptJumpEditResumes(i)
    \/ DismissJumpEdit

Spec == Init /\ [][Next]_vars

\* ------------------------------------------------------------------ the classifier alone

\* The largest cursor line and the largest first line of an edit of the grid.
MaxCursorLine == 7
MaxEditStartLine == 5

\* The inputs of the classifier's tests.
ClassifierTestInputs ==
    { [cursorLine |-> 20, editStartLine |-> 5, editEndLine |-> 6, cursorOffset |-> 500,
       startIndex |-> 120, completion |-> <<"x">>, isOnSingleNewlineBoundary |-> FALSE],
      [cursorLine |-> 10, editStartLine |-> 9, editEndLine |-> 9, cursorOffset |-> 200,
       startIndex |-> 120, completion |-> <<"f", "o", "o", NL, "b", "a", "r">>,
       isOnSingleNewlineBoundary |-> FALSE],
      [cursorLine |-> 10, editStartLine |-> 10, editEndLine |-> 10, cursorOffset |-> 200,
       startIndex |-> 120, completion |-> <<"r", "e", "p", "l">>,
       isOnSingleNewlineBoundary |-> FALSE],
      [cursorLine |-> 10, editStartLine |-> 10, editEndLine |-> 10, cursorOffset |-> 200,
       startIndex |-> 200, completion |-> <<"s", "u", "f", "f", "i", "x">>,
       isOnSingleNewlineBoundary |-> FALSE],
      [cursorLine |-> 10, editStartLine |-> 10, editEndLine |-> 10, cursorOffset |-> 200,
       startIndex |-> 200, completion |-> <<"f", "o", "o", NL, "b", "a", "r">>,
       isOnSingleNewlineBoundary |-> TRUE] }

\* A grid of inputs around the band: every order of cursor line and edit lines, and a
\* start before, at and after the cursor offset.
ClassifierGrid ==
    { [cursorLine |-> c, editStartLine |-> a, editEndLine |-> a + d, cursorOffset |-> 2,
       startIndex |-> i, completion |-> k, isOnSingleNewlineBoundary |-> b] :
         c \in 0..MaxCursorLine, a \in 0..MaxEditStartLine, d \in 0..1, i \in 1..3,
         k \in {<<"x">>, <<"x", NL, "y">>}, b \in BOOLEAN }

ClassifierInputs == ClassifierGrid \cup ClassifierTestInputs

InitClassifier ==
    /\ EngineInit
    /\ input \in ClassifierInputs
    /\ output = Nil

\* A call of classifyEditDisplay(input).
Classify ==
    /\ output = Nil
    /\ output' = classifyEditDisplay(input)
    /\ UNCHANGED <<input, engine>>

NextClassifier == Classify

SpecClassifier == InitClassifier /\ [][NextClassifier]_vars

\* ------------------------------------------------------------------ display of a response

\* Texts of document A, edited since activation, with up to four lines.
DisplayTexts == { <<NL, NL, NL, "a">>, <<"a", NL, "a">> }

\* The candidates the completion service answers with for text t: any start, an end
\* at the start, one character on, or at offset 0, a completion with or without a
\* line break.
DisplayCandidates(t) ==
    UNION { { Cand(1, s, e, c) : e \in {s, s + 1, 0}, c \in {<<"b">>, <<"b", NL>>} } :
              s \in 0..Len(t) }

\* One candidate, or a candidate followed by an insertion at the end of the text.
DisplayAnswers(t) ==
    {<<c>> : c \in DisplayCandidates(t)} \cup
    {<<c, Cand(2, Len(t), Len(t), <<"c">>)>> : c \in DisplayCandidates(t)}

InitDisplay ==
    /\ \E t \in DisplayTexts : text = [d \in Docs |-> IF d = "A" THEN t ELSE <<>>]
    /\ version = [d \in Docs |-> IF d = "A" THEN 2 ELSE 1]
    /\ \E position \in Positions(text["A"]) :
          cursor = [d \in Docs |-> IF d = "A" THEN position ELSE positionAt(<<>>, 0)]
    /\ ProviderInit
    /\ input = Nil
    /\ output = Nil

\* The calls of provideInlineCompletionItems for document A, with no editor event
\* between their steps.
NextDisplay ==
    \/ Trigger("A")
    \/ \E r \in Requests : GateFocusBeforeRequest(r)
    \/ \E r \in Requests, wait \in BOOLEAN : GateSnippetBeforeRequest(r, wait)
    \/ \E r \in Requests : DebounceEnds(r)
    \/ \E r \in Requests, a \in DisplayAnswers(text["A"]) : Respond(r, a)
    \/ \E r \in Requests : GateFocusBeforeRender(r)
    \/ \E r \in Requests : GateSnippetBeforeRender(r)

SpecDisplay == InitDisplay /\ [][NextDisplay]_vars

\* ------------------------------------------------------------------ debounce of requests

\* What the completion service answers: nothing, or an insertion at the end of text t.
DebounceAnswers(t) == { <<>>, <<Cand(1, Len(t), Len(t), <<"b">>)>> }

\* Three calls of provideInlineCompletionItems for document A, edited since
\* activation, with cancellations of their tokens and changes of the suppression
\* conditions between their steps.
NextDebounce ==
    \/ TriggerUpTo("A", MaxCalls)
    \/ \E r \in Requests : GateFocusBeforeRequest(r)
    \/ \E r \in Requests, wait \in BOOLEAN : GateSnippetBeforeRequest(r, wait)
    \/ \E r \in Requests : DebounceEnds(r)
    \/ \E r \in Requests, a \in DebounceAnswers(text["A"]) : Respond(r, a)
    \/ \E r \in Requests : GateFocusBeforeRender(r)
    \/ \E r \in Requests : GateSnippetBeforeRender(r)
    \/ \E r \in Requests : CancelToken(r)
    \/ \E c \in Conds : SetCond(c)

SpecDebounce == InitDisplay /\ [][NextDebounce]_vars

\* ------------------------------------------------------------------ queue of a response

\* ApiClient.getAutocomplete from the decoded completions on: the results whose
\* completion is not empty; its null is the empty list.
getAutocomplete(completions) ==
    SelectSeq(completions, LAMBDA result : Len(result.completion) > 0)

\* The ranges of text t: 0 <= startIndex <= endIndex <= Len(t).
RangesOf(t) == { <<a, b>> \in (0..Len(t)) \X (0..Len(t)) : a <= b }

\* The completions of the service for text t: a first one that replaces any range of
\* t by "b", and a second one that replaces any range by "b", by "a" or by nothing.
QueueResponses(t) ==
    { <<Cand(1, r1[1], r1[2], <<"b">>), Cand(2, r2[1], r2[2], c)>> :
         r1 \in RangesOf(t), r2 \in RangesOf(t), c \in {<<>>, <<"b">>, <<"a">>} }

\* How many completion triggers a behaviour of the queue specification has.
MaxQueueCalls == 1

\* The first call of provideInlineCompletionItems for document A, which finds no
\* debounce delay left, with a response that holds ranges of the document, and the
\* acceptance of the displayed item.
NextQueue ==
    \/ TriggerUpTo("A", MaxQueueCalls)
    \/ \E r \in Requests : GateFocusBeforeRequest(r)
    \/ \E r \in Requests : GateSnippetBeforeRequest(r, FALSE)
    \/ \E r \in Requests, completions \in QueueResponses(text["A"]) :
          Respond(r, getAutocomplete(completions))
    \/ \E r \in Requests : GateFocusBeforeRender(r)
    \/ \E r \in Requests : GateSnippetBeforeRender(r)
    \/ UserAcceptsInline
    \/ AcceptInlineEdit

\* Document A holds "a", a line break and "a", edited since activation; its cursor is
\* anywhere.
InitQueue ==
    /\ text = [d \in Docs |-> IF d = "A" THEN <<"a", NL, "a">> ELSE <<>>]
    /\ version = [d \in Docs |-> IF d = "A" THEN 2 ELSE 1]
    /\ \E position \in Positions(text["A"]) :
          cursor = [d \in Docs |-> IF d = "A" THEN position ELSE positionAt(<<>>, 0)]
    /\ ProviderInit
    /\ input = Nil
    /\ output = Nil

SpecQueue == InitQueue /\ [][NextQueue]_vars

\* ------------------------------------------------------------------ end of the debounce wait

\* Three calls of provideInlineCompletionItems for document A, with cancellations
\* of their tokens between their steps.
NextWait ==
    \/ TriggerUpTo("A", MaxCalls)
    \/ \E r \in Requests : GateFocusBeforeRequest(r)
    \/ \E r \in Requests, wait \in BOOLEAN : GateSnippetBeforeRequest(r, wait)
    \/ \E r \in Requests : DebounceEnds(r)
    \/ \E r \in Requests, a \in DebounceAnswers(text["A"]) : Respond(r, a)
    \/ \E r \in Requests : GateFocusBeforeRender(r)
    \/ \E r \in Requests : GateSnippetBeforeRender(r)
    \/ \E r \in Requests : CancelToken(r)

\* The timer of a debounce wait fires after at most the debounce delay, and a
\* cancellation ends the wait at once: a call does not stay in the wait for ever.
SpecWait ==
    /\ InitQueue
    /\ [][NextWait]_vars
    /\ \A r \in Requests : WF_vars(DebounceEnds(r))

\* ------------------------------------------------------------------ repeated accept of a jump edit

\* How many calls of acceptJumpEdit can be suspended at editor.edit at a time.
MaxJumpAccepts == 2

\* A call of provideInlineCompletionItems for document A whose response can set a
\* jump edit, the accept command invoked up to twice before the editor has settled
\* the edit of the first invocation, keystrokes, and the dismiss command.
NextJump ==
    \/ TriggerUpTo("A", MaxQueueCalls)
    \/ \E r \in Requests : GateFocusBeforeRequest(r)
    \/ \E r \in Requests : GateSnippetBeforeRequest(r, FALSE)
    \/ \E r \in Requests, a \in DisplayAnswers(text["A"]) : Respond(r, a)
    \/ \E r \in Requests : GateFocusBeforeRender(r)
    \/ \E r \in Requests : GateSnippetBeforeRender(r)
    \/ \E c \in TypedChars : Type(c)
    \/ AcceptJumpEditUpTo(MaxJumpAccepts)
    \/ \E i \in 1..MaxJumpAccepts : EditSettles(i)
    \/ \E i \in 1..MaxJumpAccepts : AcceptJumpEditResumes(i)
    \/ DismissJumpEdit

SpecJump == InitDisplay /\ [][NextJump]_vars

\* ------------------------------------------------------------------ normalization alone

\* The longest text and the longest completion.
MaxTextLength == 3
MaxCompletionLength == 3

\* The texts of up to n characters "a" and "b", the empty one left out.
TextsUpTo(n) == UNION { [1..k -> {"a", "b"}] : k \in 1..n }

\* A document, a cursor in it, and a result that replaces a range of it.
NormalizeInputs ==
    UNION { { [text |-> t, cursorOffset |-> o, result |-> Cand(1, r[1], r[2], c)] :
                 o \in 0..Len(t), r \in RangesOf(t), c \in TextsUpTo(MaxCompletionLength) } :
              t \in TextsUpTo(MaxTextLength) }

InitNormalize ==
    /\ EngineInit
    /\ input \in NormalizeInputs
    /\ output = Nil

\* A call of normalizeInlineResult(document, position, result).
Normalize ==
    /\ output = Nil
    /\ output' = [result |-> normalizeInlineResult(input.text,
                                 positionAt(input.text, input.cursorOffset), input.result)]
    /\ UNCHANGED <<input, engine>>

NextNormalize == Normalize

SpecNormalize == InitNormalize /\ [][NextNormalize]_vars

\* ------------------------------------------------------------------ unified diff

DEFAULT_CONTEXT_LINES == 2
DEFAULT_MAX_DIFF_CHARS == 20000

\* Number.prototype.toString() of a natural number, as in a template literal.
Digits == <<"0", "1", "2", "3", "4", "5", "6", "7", "8", "9">>
RECURSIVE toString(_)
toString(n) ==
    IF n < 10 THEN <<Digits[n + 1]>>
    ELSE toString(n \div 10) \o <<Digits[(n % 10) + 1]>>

\* text.split("\n")
RECURSIVE split(_)
split(s) ==
    IF ~Includes(s, NL) THEN <<s>>
    ELSE LET i == CHOOSE j \in 1..Len(s) : s[j] = NL /\ \A k \in 1..(j - 1) : s[k] # NL
         IN  <<SubSeq(s, 1, i - 1)>> \o split(SubSeq(s, i + 1, Len(s)))

\* lines.join("\n")
RECURSIVE join(_)
join(lines) ==
    IF lines = <<>> THEN <<>>
    ELSE IF Len(lines) = 1 THEN lines[1]
    ELSE lines[1] \o <<NL>> \o join(Tail(lines))

\* text.lastIndexOf("\n"), counted from 0, or -1
lastIndexOfNewline(s) ==
    LET at == {i \in 1..Len(s) : s[i] = NL}
    IN  IF at = {} THEN -1 ELSE (CHOOSE i \in at : \A j \in at : j <= i) - 1

\* toLines(text)
toLines(t) == IF t = <<>> THEN <<>> ELSE split(t)

\* getLastLines(text, count)
getLastLines(t, count) ==
    IF t = <<>> \/ count <= 0 THEN <<>>
    ELSE LET all == split(t)
             lines == IF EndsWith(t, <<NL>>) THEN SubSeq(all, 1, Len(all) - 1) ELSE all
         IN  SubSeq(lines, Max(1, Len(lines) - count + 1), Len(lines))

\* getFirstLines(text, count)
getFirstLines(t, count) ==
    IF t = <<>> \/ count <= 0 THEN <<>>
    ELSE SubSeq(split(t), 1, Min(count, Len(split(t))))

\* lines.map((line) => prefix + line)
Prefixed(prefix, lines) == [i \in 1..Len(lines) |-> <<prefix>> \o lines[i]]

\* The marker of truncateDiff, "...[truncated]".
TruncationMarker ==
    <<".", ".", ".", "[", "t", "r", "u", "n", "c", "a", "t", "e", "d", "]">>

\* The second line of the header.
HeaderSeparator == [i \in 1..67 |-> "="]

\* Whether the change's range lies in previousContent.
ValidChange(in) ==
    ~(\/ in.rangeOffset < 0
      \/ in.rangeOffset + in.rangeLength < in.rangeOffset
      \/ in.rangeOffset + in.rangeLength > Len(in.previousContent))

\* deletedText of formatRecentChangeDiff.
DeletedText(in) ==
    Slice(in.previousContent, in.rangeOffset, in.rangeOffset + in.rangeLength)

\* bodyLines of formatRecentChangeDiff, given its beforeContext and afterContext.
BodyLinesWith(beforeContext, deletedLines, addedLines, afterContext) ==
    Prefixed(" ", beforeContext) \o Prefixed("-", deletedLines)
        \o Prefixed("+", addedLines) \o Prefixed(" ", afterContext)

\* header of formatRecentChangeDiff, given the start line and the two counts.
HeaderWith(filepath, oldStartLine, oldCount, newCount) ==
    << <<"I", "n", "d", "e", "x", ":", " ">> \o filepath,
       HeaderSeparator,
       <<"@", "@", " ", "-">> \o toString(oldStartLine) \o <<",">> \o toString(oldCount)
           \o <<" ", "+">> \o toString(oldStartLine) \o <<",">> \o toString(newCount)
           \o <<" ", "@", "@">> >>

\* beforeContext and afterContext of formatRecentChangeDiff.
BeforeContext(in) == getLastLines(Slice(in.previousContent, 0, in.rangeOffset), in.contextLines)
AfterContext(in) ==
    getFirstLines(Slice(in.previousContent, in.rangeOffset + in.rangeLength,
                        Len(in.previousContent)), in.contextLines)

\* bodyLines of formatRecentChangeDiff.
DiffBodyLines(in) ==
    BodyLinesWith(BeforeContext(in), toLines(DeletedText(in)), toLines(in.newText),
                  AfterContext(in))

\* header of formatRecentChangeDiff.
DiffHeader(in) ==
    HeaderWith(in.filepath,
               Max(1, in.rangeStartLine + 1 - Len(BeforeContext(in))),
               Len(BeforeContext(in)) + Len(toLines(DeletedText(in))) + Len(AfterContext(in)),
               Len(BeforeContext(in)) + Len(toLines(in.newText)) + Len(AfterContext(in)))

\* The body of truncateDiff once it is cut to its budget.
TruncatedBody(truncated) ==
    IF lastIndexOfNewline(truncated) > 0
    THEN Slice(truncated, 0, lastIndexOfNewline(truncated))
    ELSE truncated

\* truncateDiff after its first return, for the joined header and the cut body.
TruncatedWith(headerText, truncated) ==
    IF truncated = <<>> THEN headerText \o <<NL>> \o TruncationMarker
    ELSE headerText \o <<NL>> \o truncated \o <<NL>> \o TruncationMarker

\* truncateDiff(header, bodyLines, maxDiffChars)
truncateDiff(header, bodyLines, maxDiffChars) ==
    LET minLength == Len(join(header)) + 1 + Len(TruncationMarker)
        bodyBudget == maxDiffChars - (Len(join(header)) + 1 + Len(TruncationMarker) + 1)
    IN  IF maxDiffChars <= minLength THEN join(header)
        ELSE TruncatedWith(join(header),
                 TruncatedBody(Slice(join(bodyLines), 0, Max(0, bodyBudget))))

\* isNoOpChange with a bug: an empty change is not a no-op.
isNoOpNonEmptyChange(deletedText, newText) == deletedText # <<>> /\ deletedText = newText

\* The no-op test of formatRecentChangeDiff: deletedText === newText.
isNoOpChange(deletedText, newText) == deletedText = newText

\* formatRecentChangeDiff from the header and the body on.
FormatWith(header, bodyLines, maxDiffChars) ==
    IF Len(join(header \o bodyLines)) <= maxDiffChars
    THEN join(header \o bodyLines)
    ELSE truncateDiff(header, bodyLines, maxDiffChars)

\* formatRecentChangeDiff(input): Nil for null, else [text |-> the patch];
\* rangeStartLine is range.start.line.
formatRecentChangeDiff(in) ==
    IF ~ValidChange(in) THEN Nil
    ELSE IF isNoOpChange(DeletedText(in), in.newText) THEN Nil
    ELSE [text |-> FormatWith(DiffHeader(in), DiffBodyLines(in), in.maxDiffChars)]

\* The length of the long line of the truncation test.
LongLineLength == 200
LongLine == [i \in 1..LongLineLength |-> "x"]

\* The file path of the tests, "src/example.ts".
ExamplePath == <<"s", "r", "c", "/", "e", "x", "a", "m", "p", "l", "e", ".", "t", "s">>

\* Previous contents, inserted texts and budgets of the changes formatted; with the
\* path of the tests the header has 105 characters, and 120 with the marker.
DiffContents == { <<>>, <<"a">>, <<"a", NL>>, <<"a", NL, "b", NL, "c">> }
DiffNewTexts == { <<>>, <<"a">>, <<"x">>, <<"x", NL, "y">>, LongLine }
DiffBudgets == { 50, 105, 120, 121, 124, 130, 220, DEFAULT_MAX_DIFF_CHARS }

\* Changes with their range inside, at the end of, and outside the previous content;
\* range.start is the position of rangeOffset.
DiffInputs ==
    UNION { { [filepath |-> ExamplePath, previousContent |-> p,
               rangeStartLine |-> positionAt(p, o).line, rangeOffset |-> o,
               rangeLength |-> l, newText |-> n, contextLines |-> c, maxDiffChars |-> m] :
                 o \in -1..(Len(p) + 1), l \in -1..2, n \in DiffNewTexts,
                 c \in {0, DEFAULT_CONTEXT_LINES}, m \in DiffBudgets } :
            p \in DiffContents }

InitDiff ==
    /\ EngineInit
    /\ input \in DiffInputs
    /\ output = Nil

\* A call of formatRecentChangeDiff(input).
FormatRecentChange ==
    /\ output = Nil
    /\ output' = [result |-> formatRecentChangeDiff(input)]
    /\ UNCHANGED <<input, engine>>

NextDiff == FormatRecentChange

SpecDiff == InitDiff /\ [][NextDiff]_vars

\* ------------------------------------------------------------------ retrieval snippet fusion

\* A FileChunk; timestamp is the empty set for a chunk without one, else {the number}.
Chunk(f, a, b, c, ts) ==
    [file_path |-> f, start_line |-> a, end_line |-> b, content |-> c, timestamp |-> ts]

\* timestamp ?? 0
TimestampOrZero(c) == IF c.timestamp = {} THEN 0 ELSE CHOOSE n \in c.timestamp : TRUE

\* String.prototype.trim() for texts of letters, spaces and line breaks.
RECURSIVE trim(_)
trim(s) ==
    IF s = <<>> THEN s
    ELSE IF s[1] \in {" ", NL} THEN trim(Tail(s))
    ELSE IF s[Len(s)] \in {" ", NL} THEN trim(SubSeq(s, 1, Len(s) - 1))
    ELSE s

\* rangesTouch(a, b)
rangesTouch(a, b) == b.start_line <= a.end_line + 1 /\ a.start_line <= b.end_line + 1

\* mergeSnippet with a bug: the two contents are joined even if one range contains
\* the other.
mergeAlwaysJoins(a, b) ==
    [file_path |-> a.file_path,
     start_line |-> Min(a.start_line, b.start_line),
     end_line |-> Max(a.end_line, b.end_line),
     content |-> trim(IF a.start_line <= b.start_line
                      THEN a.content \o <<NL>> \o b.content
                      ELSE b.content \o <<NL>> \o a.content),
     timestamp |-> {Max(TimestampOrZero(a), TimestampOrZero(b))}]

\* mergeSnippet(a, b)
mergeSnippet(a, b) ==
    IF a.start_line <= b.start_line /\ a.end_line >= b.end_line THEN a
    ELSE IF b.start_line <= a.start_line /\ b.end_line >= a.end_line THEN b
    ELSE [file_path |-> a.file_path,
          start_line |-> Min(a.start_line, b.start_line),
          end_line |-> Max(a.end_line, b.end_line),
          content |-> trim(IF a.start_line <= b.start_line
                           THEN a.content \o <<NL>> \o b.content
                           ELSE b.content \o <<NL>> \o a.content),
          timestamp |-> {Max(TimestampOrZero(a), TimestampOrZero(b))}]

\* EndsIteration with a bug: the file paths are not compared.
EndsIterationInAnyFile(existing, snippet) ==
    \/ rangesTouch(existing, snippet)
    \/ /\ existing.start_line = snippet.start_line
       /\ existing.end_line = snippet.end_line
       /\ existing.content = snippet.content

\* Whether the inner loop of fuseAndDedupRetrievalSnippets ends the iteration for
\* snippet at the entry existing: the two touch, or they are the same chunk.
EndsIteration(existing, snippet) ==
    /\ existing.file_path = snippet.file_path
    /\ \/ rangesTouch(existing, snippet)
       \/ /\ existing.start_line = snippet.start_line
          /\ existing.end_line = snippet.end_line
          /\ existing.content = snippet.content

\* One iteration of snippetsLoop of fuseAndDedupRetrievalSnippets: the fused list
\* after snippet.
FuseSnippet(fused, snippet) ==
    LET hits == {i \in 1..Len(fused) : EndsIteration(fused[i], snippet)}
        first == CHOOSE i \in hits : \A j \in hits : i <= j
    IN  IF hits = {} THEN Append(fused, snippet)
        ELSE IF rangesTouch(fused[first], snippet)
        THEN [fused EXCEPT ![first] = mergeSnippet(fused[first], snippet)]
        ELSE fused

\* fuseAndDedupRetrievalSnippets(snippets), from the fused list so far.
RECURSIVE FuseFrom(_, _)
FuseFrom(fused, snippets) ==
    IF snippets = <<>> THEN fused
    ELSE FuseFrom(FuseSnippet(fused, Head(snippets)), Tail(snippets))

\* fuseAndDedupRetrievalSnippets(snippets)
fuseAndDedupRetrievalSnippets(snippets) == FuseFrom(<<>>, snippets)

\* How many snippets a call of fuseAndDedupRetrievalSnippets is given at most.
MaxSnippets == 4

\* The chunks the snippets are drawn from: ranges of one file that are apart, adjacent,
\* overlapping and nested, with and without a timestamp, a chunk whose end line is
\* before its start line, and two adjacent ranges of another file.
ChunkPool ==
    { Chunk("a.ts", 1, 2, <<"a">>, {1}),
      Chunk("a.ts", 3, 4, <<"b">>, {2}),
      Chunk("a.ts", 5, 6, <<"c">>, {3}),
      Chunk("a.ts", 5, 5, <<"d", NL>>, {}),
      Chunk("a.ts", 1, 6, <<"e">>, {1}),
      Chunk("a.ts", 8, 9, <<"f">>, {}),
      Chunk("a.ts", 12, 10, <<"g">>, {}),
      Chunk("b.ts", 3, 4, <<"b">>, {2}),
      Chunk("b.ts", 5, 6, <<"h">>, {4}) }

FusionInputs == UNION { [1..n -> ChunkPool] : n \in 0..MaxSnippets }

\* output is the fused list and the index of the next snippet of the loop.
InitFusion ==
    /\ EngineInit
    /\ input \in FusionInputs
    /\ output = [fused |-> <<>>, next |-> 1]

\* One iteration of snippetsLoop, for the next snippet of the input.
FuseNextSnippet ==
    /\ output.next <= Len(input)
    /\ output' = [fused |-> FuseSnippet(output.fused, input[output.next]),
                  next |-> output.next + 1]
    /\ UNCHANGED <<input, engine>>

NextFusion == FuseNextSnippet

SpecFusion == InitFusion /\ [][NextFusion]_vars

\* ------------------------------------------------------------------ tracked offsets

\* TrackedOffsets and OffsetChange.
Offsets(a, b) == [startOffset |-> a, endOffset |-> b]
Change(o, l, t) == [rangeOffset |-> o, rangeLength |-> l, text |-> t]

\* transformStartOffset with a bug: an insertion at the tracked start does not shift it.
transformStartCollapsing(offset, changeStart, changeEnd, delta) ==
    IF offset < changeStart THEN offset
    ELSE IF offset > changeEnd THEN offset + delta
    ELSE changeStart

\* transformStartOffset(offset, changeStart, changeEnd, delta)
transformStartOffset(offset, changeStart, changeEnd, delta) ==
    IF offset < changeStart THEN offset
    ELSE IF offset > changeEnd \/ (offset = changeEnd /\ changeStart = changeEnd)
    THEN offset + delta
    ELSE changeStart

\* transformEndOffset with a bug: an end inside the replaced range moves to the start
\* of the change, before the inserted text.
transformEndBeforeInsert(offset, changeStart, changeEnd, insertedLength, delta) ==
    IF offset < changeStart THEN offset
    ELSE IF offset >= changeEnd THEN offset + delta
    ELSE changeStart

\* transformEndOffset(offset, changeStart, changeEnd, insertedLength, delta)
transformEndOffset(offset, changeStart, changeEnd, insertedLength, delta) ==
    IF offset < changeStart THEN offset
    ELSE IF offset >= changeEnd THEN offset + delta
    ELSE changeStart + insertedLength

\* ClampedStart with a bug: a negative start offset is kept.
UnclampedStart(offsets) == offsets.startOffset

\* startOffset of applyContentChangeToTrackedOffsets.
ClampedStart(offsets) == Max(0, offsets.startOffset)

\* ClampedChangeEnd with a bug: the end of the change is not clamped to its start.
UnclampedChangeEnd(change) == change.rangeOffset + change.rangeLength

\* changeEnd of applyContentChangeToTrackedOffsets.
ClampedChangeEnd(change) ==
    Max(Max(0, change.rangeOffset), change.rangeOffset + change.rangeLength)

\* applyContentChangeToTrackedOffsets once its six constants are computed.
ApplyClamped(startOffset, endOffset, changeStart, changeEnd, insertedLength, delta) ==
    Offsets(transformStartOffset(startOffset, changeStart, changeEnd, delta),
            Max(transformStartOffset(startOffset, changeStart, changeEnd, delta),
                transformEndOffset(endOffset, changeStart, changeEnd, insertedLength, delta)))

\* applyContentChangeToTrackedOffsets(offsets, change)
applyContentChangeToTrackedOffsets(offsets, change) ==
    ApplyClamped(ClampedStart(offsets),
                 Max(ClampedStart(offsets), offsets.endOffset),
                 Max(0, change.rangeOffset),
                 ClampedChangeEnd(change),
                 Len(change.text),
                 Len(change.text) - (ClampedChangeEnd(change) - Max(0, change.rangeOffset)))

\* The largest offset tracked, and the largest length of a replaced range.
MaxOffset == 8
MaxRangeLength == 3

\* The inserted texts.
ChangeTexts == { <<>>, <<"x">>, <<"x", "y">> }

\* The changes: any offset and length, one below zero included.
OffsetChanges ==
    { Change(o, l, t) : o \in -1..MaxOffset, l \in -1..MaxRangeLength, t \in ChangeTexts }

\* output is the tracked offsets; input is the arguments of the last call, or Nil.
\* The offsets tracked at first are any two numbers, negative and inverted ones included.
InitOffsets ==
    /\ EngineInit
    /\ input = Nil
    /\ output \in { Offsets(a, b) : a, b \in -1..MaxOffset }

\* A content change is applied to the tracked offsets.
ApplyChange(change) ==
    /\ applyContentChangeToTrackedOffsets(output, change).endOffset <= MaxOffset
    /\ input' = [offsets |-> output, change |-> change]
    /\ output' = applyContentChangeToTrackedOffsets(output, change)
    /\ UNCHANGED engine

NextOffsets == \E change \in OffsetChanges : ApplyChange(change)

SpecOffsets == InitOffsets /\ [][NextOffsets]_vars

\* ------------------------------------------------------------------ line diff of a jump edit

\* s[i] of a string: the character at index i, counted from 0, or undefined.
CharAt(s, i) == IF i >= 0 /\ i < Len(s) THEN s[i + 1] ELSE "undefined"

\* The longest line.
MaxLineLength == 4

\* The lines of up to n characters "a" and "b", the empty line included.
LinesUpTo(n) == UNION { [1..k -> {"a", "b"}] : k \in 0..n }

\* The first loop of getLineDiff and of computeReplacementSpan, from prefixLen on.
RECURSIVE commonPrefixLoop(_, _, _, _)
commonPrefixLoop(oldLine, newLine, minLen, prefixLen) ==
    IF prefixLen < minLen /\ CharAt(oldLine, prefixLen) = CharAt(newLine, prefixLen)
    THEN commonPrefixLoop(oldLine, newLine, minLen, prefixLen + 1)
    ELSE prefixLen

\* A suffix loop that may run into the prefix.
suffixBoundIgnoringPrefix(minLen, prefixLen) == minLen

\* The bound of the suffix loop of getLineDiff.
suffixBound(minLen, prefixLen) == minLen - prefixLen

\* The second loop of getLineDiff, from suffixLen on.
RECURSIVE commonSuffixLoop(_, _, _, _)
commonSuffixLoop(oldLine, newLine, bound, suffixLen) ==
    IF /\ suffixLen < bound
       /\ CharAt(oldLine, Len(oldLine) - 1 - suffixLen)
              = CharAt(newLine, Len(newLine) - 1 - suffixLen)
    THEN commonSuffixLoop(oldLine, newLine, bound, suffixLen + 1)
    ELSE suffixLen

\* JumpEditManager.getLineDiff; its null is Nil.
getLineDiff(oldLine, newLine) ==
    IF oldLine = newLine THEN Nil
    ELSE LET minLen == Min(Len(oldLine), Len(newLine))
             prefixLen == commonPrefixLoop(oldLine, newLine, minLen, 0)
             suffixLen == commonSuffixLoop(oldLine, newLine,
                                           suffixBound(minLen, prefixLen), 0)
         IN  [oldChanged |-> Slice(oldLine, prefixLen, Len(oldLine) - suffixLen),
              newChanged |-> Slice(newLine, prefixLen, Len(newLine) - suffixLen),
              prefixLen |-> prefixLen,
              suffixLen |-> suffixLen]

\* An old line and a new line.
InitLineDiff ==
    /\ EngineInit
    /\ input \in { [oldLine |-> a, newLine |-> b] :
                     a \in LinesUpTo(MaxLineLength), b \in LinesUpTo(MaxLineLength) }
    /\ output = Nil

\* A call of getLineDiff(oldLine, newLine).
GetLineDiff ==
    /\ output = Nil
    /\ output' = [result |-> getLineDiff(input.oldLine, input.newLine)]
    /\ UNCHANGED <<input, engine>>

NextLineDiff == GetLineDiff

SpecLineDiff == InitLineDiff /\ [][NextLineDiff]_vars

\* ------------------------------------------------------------------ replacement span

\* The longest text given to computeReplacementSpan.
MaxSpanTextLength == 4

\* A second loop that stops only at the start of the current text's span.
spanShrinksPastUpdated(start, endCurrent, endUpdated) == endCurrent > start

\* The bounds of the second loop of computeReplacementSpan: neither end may pass start.
spanShrinks(start, endCurrent, endUpdated) == endCurrent > start /\ endUpdated > start

\* The second loop of computeReplacementSpan, from endCurrent and endUpdated on.
RECURSIVE spanEndLoop(_, _, _, _, _)
spanEndLoop(currentText, updatedText, start, endCurrent, endUpdated) ==
    IF /\ spanShrinks(start, endCurrent, endUpdated)
       /\ CharAt(currentText, endCurrent - 1) = CharAt(updatedText, endUpdated - 1)
    THEN spanEndLoop(currentText, updatedText, start, endCurrent - 1, endUpdated - 1)
    ELSE [endCurrent |-> endCurrent, endUpdated |-> endUpdated]

\* computeReplacementSpan; its null is Nil.
computeReplacementSpan(currentText, updatedText) ==
    IF currentText = updatedText THEN Nil
    ELSE LET minLen == Min(Len(currentText), Len(updatedText))
             start == commonPrefixLoop(currentText, updatedText, minLen, 0)
             ends == spanEndLoop(currentText, updatedText, start,
                                 Len(currentText), Len(updatedText))
         IN  [start |-> start,
              end |-> ends.endCurrent,
              replacement |-> Slice(updatedText, start, ends.endUpdated)]

\* A current text and an updated text.
InitSpan ==
    /\ EngineInit
    /\ input \in { [currentText |-> a, updatedText |-> b] :
                     a \in LinesUpTo(MaxSpanTextLength), b \in LinesUpTo(MaxSpanTextLength) }
    /\ output = Nil

\* A call of computeReplacementSpan(currentText, updatedText).
ComputeReplacementSpan ==
    /\ output = Nil
    /\ output' = [result |-> computeReplacementSpan(input.currentText, input.updatedText)]
    /\ UNCHANGED <<input, engine>>

NextSpan == ComputeReplacementSpan

SpecSpan == InitSpan /\ [][NextSpan]_vars

\* ------------------------------------------------------------------ claims

\* Call r is past the request to the completion service and has not returned.
AfterRequest(r) == req[r].pc \in {"network", "gate2a", "gate2b"}

\* Call r returns in this step.
Returns(r) == req[r].pc \notin {"idle", "done"} /\ req'[r].pc = "done"

\* Call r returns in this step from the rendering of its response.
Renders(r) ==
    req[r].pc = "gate2b" /\ req'[r].pc = "done" /\ req'[r].outcome # "render-suppressed"

\* The candidates of a queue (none when there is no queue).
QueueOf(q) == IF q = Nil THEN <<>> ELSE q.suggestions

\* What normalization makes of the candidates of a response, one by one.
NormalizedResults(t, position, results) ==
    [i \in 1..Len(results) |-> normalizeInlineResult(t, position, results[i])]

\* The candidates of a response that survive normalization and no-op filtering and
\* are classified as one of decisions, by their places in the response.
Survivors(t, position, results, decisions) ==
    {i \in 1..Len(results) :
        /\ NormalizedResults(t, position, results)[i] # Nil
        /\ ~isNoOpSuggestion(t, NormalizedResults(t, position, results)[i])
        /\ ClassifyInDocument(t, position,
               NormalizedResults(t, position, results)[i]).decision \in decisions}

First(S) == CHOOSE i \in S : \A j \in S : i <= j

\* The first surviving candidate of a response classified as one of decisions.
FirstSurvivor(t, position, results, decisions) ==
    NormalizedResults(t, position, results)[First(Survivors(t, position, results, decisions))]

\* The pending jump edit that setPendingJumpEdit makes of a candidate of document d.
JumpEditOf(d, result) ==
    [result |-> result, uri |-> d, originCursorLine |-> cursor[d].line,
     docVersion |-> version[d]]

\* C1: a call of an older epoch that returns after its response arrived leaves the
\* suggestion queue and the pending jump edit as they were, and returns no item
\* unless the item was adapted by the ghost-text extension.
C1_OlderEpochIsInert ==
    [][\A r \in Requests :
          (AfterRequest(r) /\ r # latestRequestId /\ Returns(r))
              => /\ queuedSuggestions' = queuedSuggestions
                 /\ pendingJumpEdit' = pendingJumpEdit
                 /\ (req'[r].ret = Nil \/ req[r].extended)]_vars

SuppressionHolds(d) ==
    \/ cond \in {"disabled", "snoozed", "windowUnfocused", "editorTextUnfocused",
                 "multiLineSelection", "recentMultiLineSelection", "snippetMode",
                 "bulkEdit"}
    \/ activeEditor = "none"
    \/ activeEditor # d
    \/ d \notin Writable

\* C3: when a response that is not empty arrives for a call that is no longer the
\* latest, whose token is not cancelled, while suggestions are enabled, the
\* ghost-text extension is attempted: the call goes on with the extended candidates,
\* or returns because the extension found nothing to offer.
C3_ExtensionAttempted ==
    [][\A r \in Requests :
          (/\ req[r].pc = "network"
           /\ req'[r].pc # "network"
           /\ r # latestRequestId
           /\ ~req[r].token
           /\ cond # "disabled"
           /\ req'[r].outcome # "failed")
              => \/ req'[r].outcome = "irreconcilable"
                 \/ req'[r].pc = "gate2a" /\ req'[r].extended]_vars

\* C4: a call that returns while a suppression condition holds returns no item and
\* sets no pending jump edit.
C4_NothingRenderedWhenSuppressed ==
    [][\A r \in Requests :
          (Returns(r) /\ SuppressionHolds(req[r].doc))
              => /\ req'[r].ret = Nil
                 /\ (pendingJumpEdit' = Nil \/ pendingJumpEdit' = pendingJumpEdit)]_vars

\* The active document, its version and text and the cursor are those of the
\* snapshot of call r, and the window is focused.
SnapshotIsCurrent(r) ==
    /\ activeEditor = req[r].doc
    /\ version[req[r].doc] = req[r].snapVersion
    /\ text[req[r].doc] = req[r].snapContent
    /\ cursor[req[r].doc] = req[r].position
    /\ cond # "windowUnfocused"

\* C5: a call of the latest epoch that renders its response (returns an item, fills
\* the queue or sets a pending jump edit) does so in a state in which its snapshot is
\* current.
C5_RenderedOnlyIfSnapshotCurrent ==
    [][\A r \in Requests :
          (/\ Renders(r)
           /\ r = latestRequestId
           /\ \/ req'[r].ret # Nil
              \/ QueueOf(queuedSuggestions') # <<>>
              \/ pendingJumpEdit' # Nil)
              => SnapshotIsCurrent(r)]_vars

\* The candidates of a response that survive normalization and no-op filtering and
\* are classified INLINE, in response order.
InlineSurvivors(t, position, results) ==
    SelectSeq(NormalizedResults(t, position, results),
              LAMBDA n : /\ n # Nil
                         /\ ~isNoOpSuggestion(t, n)
                         /\ ClassifyInDocument(t, position, n).decision = "INLINE")

\* The inline completion item of a candidate of document d.
ItemOf(d, result) ==
    [id |-> result.id, startIndex |-> result.startIndex, endIndex |-> result.endIndex,
     completion |-> result.completion, uri |-> d]

\* C6: when a call of the latest epoch renders a response with no surviving JUMP
\* candidate and a surviving INLINE candidate, it returns the first INLINE candidate
\* and leaves the remaining INLINE candidates, in response order, in the queue.
C6_InlineRenderedRestQueued ==
    [][\A r \in Requests :
          (/\ Renders(r)
           /\ r = latestRequestId
           /\ Survivors(text[req[r].doc], req[r].position, req[r].results, {"JUMP"}) = {}
           /\ Survivors(text[req[r].doc], req[r].position, req[r].results, {"INLINE"}) # {})
              => /\ req'[r].ret =
                        ItemOf(req[r].doc,
                            Head(InlineSurvivors(text[req[r].doc], req[r].position,
                                                 req[r].results)))
                 /\ QueueOf(queuedSuggestions') =
                        Tail(InlineSurvivors(text[req[r].doc], req[r].position,
                                             req[r].results))]_vars

\* C7: when a call passes the gates while an acceptance has left the queue flagged
\* and holding a candidate that survives normalization and no-op filtering and is
\* not classified SUPPRESS, it returns having served a queued candidate, as an item
\* or as the pending jump edit, and does not go on to a request.
C7_QueueServedWithoutRequest ==
    [][\A r \in Requests :
          (/\ req[r].pc = "gate1b"
           /\ req'[r].pc # "gate1b"
           /\ shouldConsumeQueuedSuggestion
           /\ queuedSuggestions # Nil
           /\ queuedSuggestions.uri = req[r].doc
           /\ Survivors(text[req[r].doc], req[r].position, QueueOf(queuedSuggestions),
                        {"JUMP", "INLINE"}) # {}
           /\ ReasonBeforeQueue(req[r].doc) = "null")
              => /\ req'[r].pc = "done"
                 /\ (req'[r].ret # Nil \/ pendingJumpEdit' # Nil)]_vars

\* A queued candidate as the claim shifts it for an accepted candidate.
ShiftedFor(suggestion, accepted) ==
    IF suggestion.startIndex >= accepted.startIndex
    THEN [suggestion EXCEPT
             !.startIndex = @ + Len(accepted.completion)
                              - (accepted.endIndex - accepted.startIndex),
             !.endIndex = @ + Len(accepted.completion)
                            - (accepted.endIndex - accepted.startIndex)]
    ELSE suggestion

\* C8: when the acceptance of a candidate is handled, every queued candidate that
\* starts at or after the accepted start has its start and its end shifted by the
\* length of the accepted completion less the length of the accepted range, and
\* every other queued candidate is left as it was.
C8_AcceptShiftsQueue ==
    [][(acceptCommand # Nil /\ acceptCommand' = Nil)
          => QueueOf(queuedSuggestions') =
                [i \in 1..Len(QueueOf(queuedSuggestions)) |->
                    ShiftedFor(QueueOf(queuedSuggestions)[i], acceptCommand)]]_vars

\* An acceptance was handled that shifted the queued candidate 2 from offset 2 to 3.
C8_QueueShifted ==
    /\ shouldConsumeQueuedSuggestion
    /\ acceptCommand = Nil
    /\ \E i \in 1..Len(QueueOf(queuedSuggestions)) :
          /\ QueueOf(queuedSuggestions)[i].id = 2
          /\ QueueOf(queuedSuggestions)[i].startIndex = 3
          /\ QueueOf(queuedSuggestions)[i].endIndex = 3

\* The editor settles the edit of the i-th suspended call of acceptJumpEdit in this step.
Settles(i) ==
    /\ i \in 1..Len(jumpAccepts)
    /\ jumpAccepts[i].success = "pending"
    /\ Len(jumpAccepts') = Len(jumpAccepts)
    /\ jumpAccepts'[i].success # "pending"

\* The text of the document of jump edit e with the edit applied at the offsets the
\* edit was set with.
TextWithJumpEdit(e) ==
    ReplaceRange(text[e.uri], e.result.startIndex, e.result.endIndex, e.result.completion)

C10_JumpEditInvalidated ==
    [][pendingJumpEdit # Nil
          => ((\/ version'[pendingJumpEdit.uri] # version[pendingJumpEdit.uri]
               \/ activeEditor' # activeEditor
               \/ /\ cursor'[pendingJumpEdit.uri] # cursor[pendingJumpEdit.uri]
                  /\ cursor'[pendingJumpEdit.uri].line # pendingJumpEdit.originCursorLine)
                 => /\ pendingJumpEdit' = Nil
                    /\ ~decorated'[pendingJumpEdit.uri])]_vars

\* The part of C10 about the pending jump edit alone: each of the three events
\* leaves no jump edit pending.
C10_NoLongerPending ==
    [][pendingJumpEdit # Nil
          => ((\/ version'[pendingJumpEdit.uri] # version[pendingJumpEdit.uri]
               \/ activeEditor' # activeEditor
               \/ /\ cursor'[pendingJumpEdit.uri] # cursor[pendingJumpEdit.uri]
                  /\ cursor'[pendingJumpEdit.uri].line # pendingJumpEdit.originCursorLine)
                 => pendingJumpEdit' = Nil)]_vars

\* A jump edit is pending only in the document of the active editor.
PendingInActiveEditor ==
    pendingJumpEdit # Nil => activeEditor = pendingJumpEdit.uri

\* No jump edit is pending, and the editor of a document that is not the active
\* editor's still carries a jump edit's decorations.
C10_IndicatorLeftBehind ==
    /\ pendingJumpEdit = Nil
    /\ \E d \in Docs : decorated[d] /\ activeEditor # d

\* A candidate with a negative offset or with its start after its end.
Malformed(c) == c.startIndex < 0 \/ c.endIndex < 0 \/ c.startIndex > c.endIndex

\* C11: no candidate with a negative offset or with its start after its end is ever
\* returned for rendering, queued, or set as the pending jump edit.
C11_MalformedNeverRendered ==
    /\ \A r \in Requests : req[r].ret = Nil \/ ~Malformed(req[r].ret)
    /\ \A i \in 1..Len(QueueOf(queuedSuggestions)) : ~Malformed(QueueOf(queuedSuggestions)[i])
    /\ pendingJumpEdit = Nil \/ ~Malformed(pendingJumpEdit.result)

\* A candidate with a negative offset is the pending jump edit.
C11_MalformedJumpEdit ==
    /\ pendingJumpEdit # Nil
    /\ pendingJumpEdit.result.startIndex < 0

\* C12: when the completion request of a call was aborted, or its response is empty
\* (the request failed or found nothing), the call returns no item at the response
\* and leaves the suggestion queue and the pending jump edit as they were.
C12_FailedRequestChangesNothing ==
    [][\A r \in Requests :
          (/\ req[r].pc = "network"
           /\ req'[r].pc # "network"
           /\ (req[r].aborted \/ req'[r].outcome = "failed"))
              => /\ req'[r].pc = "done"
                 /\ req'[r].ret = Nil
                 /\ queuedSuggestions' = queuedSuggestions
                 /\ pendingJumpEdit' = pendingJumpEdit]_vars

\* A call returned because its request was aborted or failed, and the jump edit that
\* was pending is still pending.
C12_FailedWithJumpEditPending ==
    /\ pendingJumpEdit # Nil
    /\ \E r \in Requests : req[r].pc = "done" /\ req[r].outcome \in {"failed", "dropped"}

\* C13: classifyEditDisplay returns {JUMP, far-from-cursor} exactly when the cursor
\* line is below editStartLine - 2 or above editEndLine + 2, whatever the offsets, the
\* completion and the boundary flag are.
C13_FarFromCursorBand ==
    output # Nil =>
        ((output = [decision |-> "JUMP", reason |-> "far-from-cursor"])
            <=> (\/ input.cursorLine < input.editStartLine - 2
                 \/ input.cursorLine > input.editEndLine + 2))

\* The classifier scenario: cursor line 20, edit on lines 5 to 6, JUMP far-from-cursor.
C13_FarScenario ==
    /\ output = [decision |-> "JUMP", reason |-> "far-from-cursor"]
    /\ input.cursorLine = 20
    /\ input.editStartLine = 5
    /\ input.editEndLine = 6

\* C14: for a cursor line inside the padded band, classifyEditDisplay returns the first
\* match of: start before the cursor offset with a newline in the completion, JUMP
\* before-cursor-multiline; start before the cursor offset, JUMP
\* before-cursor-single-line; a multiline completion starting at the cursor offset on a
\* single-newline boundary at most one line from the edit's first line, SUPPRESS
\* single-newline-boundary; anything else, INLINE inline-safe.
C14_FirstMatchInsideBand ==
    (/\ output # Nil
     /\ input.cursorLine >= input.editStartLine - 2
     /\ input.cursorLine <= input.editEndLine + 2) =>
        LET before == input.startIndex < input.cursorOffset
            multiline == \E i \in 1..Len(input.completion) : input.completion[i] = NL
            boundary == /\ multiline
                        /\ input.startIndex = input.cursorOffset
                        /\ input.isOnSingleNewlineBoundary
                        /\ input.cursorLine - input.editStartLine \in -1..1
        IN  output =
              IF before /\ multiline
              THEN [decision |-> "JUMP", reason |-> "before-cursor-multiline"]
              ELSE IF before
              THEN [decision |-> "JUMP", reason |-> "before-cursor-single-line"]
              ELSE IF boundary
              THEN [decision |-> "SUPPRESS", reason |-> "single-newline-boundary"]
              ELSE [decision |-> "INLINE", reason |-> "inline-safe"]

\* A multiline completion at the cursor, on a single-newline boundary, is suppressed;
\* the same input off the boundary is the inline case of the tests.
C14_SuppressedOnBoundary ==
    /\ output = [decision |-> "SUPPRESS", reason |-> "single-newline-boundary"]
    /\ input.cursorLine = 10
    /\ input.startIndex = input.cursorOffset

\* The offset of the cursor in document A, and the line an offset of A lies on.
CursorOffsetInA == offsetAt(text["A"], cursor["A"])
LineInA(offset) == positionAt(text["A"], offset).line

BeginsWithHeader(patch, filepath) ==
    LET lines == split(patch)
    IN  /\ Len(lines) >= 3
        /\ lines[1] = <<"I", "n", "d", "e", "x", ":", " ">> \o filepath
        /\ lines[2] = [i \in 1..67 |-> "="]
        /\ StartsWith(lines[3], <<"@", "@", " ", "-">>)
        /\ EndsWith(lines[3], <<" ", "@", "@">>)

\* C16: a non-null result of formatRecentChangeDiff has at most maxDiffChars characters
\* and begins with the complete header.
C16_WithinBudgetWithHeader ==
    (output # Nil /\ output.result # Nil) =>
        /\ Len(output.result.text) <= input.maxDiffChars
        /\ BeginsWithHeader(output.result.text, input.filepath)

\* The result is the header alone, and it is longer than maxDiffChars.
C16_HeaderOverBudget ==
    /\ output # Nil
    /\ output.result # Nil
    /\ output.result.text = join(DiffHeader(input))
    /\ Len(output.result.text) > input.maxDiffChars

\* C17: when the full patch is longer than maxDiffChars and the header with the marker
\* fits, the result is the header, then the first lines of the body, each of them
\* complete, then the marker line.
C17_TruncatedAtLineBoundary ==
    (/\ output # Nil
     /\ output.result # Nil
     /\ Len(join(DiffHeader(input) \o DiffBodyLines(input))) > input.maxDiffChars
     /\ Len(join(DiffHeader(input))) + 1 + Len(TruncationMarker) <= input.maxDiffChars) =>
        \E k \in 0..Len(DiffBodyLines(input)) :
            output.result.text =
                join(DiffHeader(input) \o SubSeq(DiffBodyLines(input), 1, k)
                        \o <<TruncationMarker>>)

\* The result ends with the marker, and the line before the marker is the beginning of
\* the body's first line, not the whole of it.
C17_CutInsideFirstLine ==
    /\ output # Nil
    /\ output.result # Nil
    /\ LET lines == split(output.result.text)
       IN  /\ Len(lines) = 5
           /\ lines[5] = TruncationMarker
           /\ StartsWith(DiffBodyLines(input)[1], lines[4])
           /\ Len(lines[4]) < Len(DiffBodyLines(input)[1])

\* C18: formatRecentChangeDiff returns null whenever the text the change removes,
\* previousContent[rangeOffset, rangeOffset + rangeLength), equals the inserted text.
C18_NoOpReturnsNull ==
    (/\ output # Nil
     /\ Slice(input.previousContent, input.rangeOffset,
              input.rangeOffset + input.rangeLength) = input.newText) =>
        output.result = Nil

\* A change that removes nothing and inserts nothing, inside the previous content, was
\* formatted, and so was one that replaces "a" by "a".
C18_EmptyChangeFormatted ==
    /\ output # Nil
    /\ output.result = Nil
    /\ input.rangeLength = 0
    /\ input.newText = <<>>
    /\ input.rangeOffset \in 0..Len(input.previousContent)

\* fuseAndDedupRetrievalSnippets has returned: its loop is past the last snippet.
FusionReturned == output.next > Len(input)

\* C19: the list fuseAndDedupRetrievalSnippets returns holds no two entries of the same
\* file whose line ranges are adjacent or overlapping.
C19_OutputRangeMerged ==
    FusionReturned =>
        \A i, j \in 1..Len(output.fused) :
            (i # j /\ output.fused[i].file_path = output.fused[j].file_path) =>
                ~(/\ output.fused[j].start_line <= output.fused[i].end_line + 1
                  /\ output.fused[i].start_line <= output.fused[j].end_line + 1)

\* The snippets [1,2], [5,6], [3,4] of one file give the entries [1,4] and [5,6].
C19_AdjacentEntriesReturned ==
    /\ FusionReturned
    /\ Len(output.fused) = 2
    /\ output.fused[1].start_line = 1 /\ output.fused[1].end_line = 4
    /\ output.fused[2].start_line = 5 /\ output.fused[2].end_line = 6

\* C20: when the incoming snippet's line range lies inside the range of an entry of the
\* fused list for the same file, the fused list is left as it is.
C20_ContainedSnippetAbsorbed ==
    [][(/\ output.next <= Len(input)
        /\ output'.next = output.next + 1
        /\ \E i \in 1..Len(output.fused) :
              /\ output.fused[i].file_path = input[output.next].file_path
              /\ output.fused[i].start_line <= input[output.next].start_line
              /\ input[output.next].end_line <= output.fused[i].end_line)
           => output'.fused = output.fused]_vars

\* The snippets [1,2], [5,6], [3,4], [5,5] of one file: the last lies inside [5,6] and
\* is merged into the first entry, which becomes [1,5].
C20_FirstEntryGrown ==
    /\ FusionReturned
    /\ Len(input) = 4
    /\ input[4].start_line = 5 /\ input[4].end_line = 5
    /\ Len(output.fused) = 2
    /\ output.fused[1].start_line = 1 /\ output.fused[1].end_line = 5
    /\ output.fused[2].start_line = 5 /\ output.fused[2].end_line = 6

\* Whether the range of chunk a contains the range of chunk b.
ContainsRange(a, b) == a.start_line <= b.start_line /\ a.end_line >= b.end_line

\* C21: two snippets of one file whose line ranges touch, neither containing the other,
\* fuse into one entry: its range is the union of the two, its content is the two
\* contents joined by a line break in line order, and its timestamp is the larger of
\* the two timestamps.
C21_TouchingPairMerged ==
    (/\ FusionReturned
     /\ Len(input) = 2
     /\ input[1].file_path = input[2].file_path
     /\ input[2].start_line <= input[1].end_line + 1
     /\ input[1].start_line <= input[2].end_line + 1
     /\ ~ContainsRange(input[1], input[2])
     /\ ~ContainsRange(input[2], input[1])) =>
        LET lower == IF input[1].start_line <= input[2].start_line THEN input[1] ELSE input[2]
            upper == IF input[1].start_line <= input[2].start_line THEN input[2] ELSE input[1]
        IN  /\ Len(output.fused) = 1
            /\ output.fused[1].file_path = lower.file_path
            /\ output.fused[1].start_line = lower.start_line
            /\ output.fused[1].end_line = upper.end_line
            /\ output.fused[1].content = lower.content \o <<NL>> \o upper.content
            /\ (lower.timestamp # {} /\ upper.timestamp # {}) =>
                   output.fused[1].timestamp = {Max(TimestampOrZero(lower), TimestampOrZero(upper))}

\* Lines 3-4 and 5-5 of one file are fused, and the content of the entry is shorter
\* than the two contents with a line break between them.
C21_ContentTrimmed ==
    /\ FusionReturned
    /\ Len(input) = 2
    /\ Len(output.fused) = 1
    /\ output.fused[1].start_line = 3
    /\ output.fused[1].end_line = 5
    /\ Len(output.fused[1].content) < Len(input[1].content) + 1 + Len(input[2].content)

\* C22: fusing a snippet and a copy of it gives one entry, equal to the snippet in every
\* field.
C22_DuplicateFusedToOriginal ==
    (FusionReturned /\ Len(input) = 2 /\ input[1] = input[2]) =>
        output.fused = <<input[1]>>

\* A snippet of lines 3-4 and its copy were fused.
C22_DuplicateFused ==
    /\ FusionReturned
    /\ Len(input) = 2
    /\ input[1] = input[2]
    /\ input[1].start_line = 3
    /\ input[1].end_line = 4

\* The chunks of file f in a list of chunks, in their order.
OfFile(chunks, f) == SelectSeq(chunks, LAMBDA c : c.file_path = f)

\* C23: snippets of different files are never merged: the returned entries of a file
\* are what fusing the input snippets of that file alone returns, whatever the
\* snippets of the other files are.
C23_FilesFusedIndependently ==
    FusionReturned =>
        \A f \in {"a.ts", "b.ts"} :
            OfFile(output.fused, f) = fuseAndDedupRetrievalSnippets(OfFile(input, f))

\* Lines 3-4 of one file and lines 3-4 of another, with the same content, were fused
\* and are two entries.
C23_SameRangeInTwoFiles ==
    /\ FusionReturned
    /\ Len(input) = 2
    /\ input[1].file_path # input[2].file_path
    /\ input[1].start_line = input[2].start_line
    /\ input[1].end_line = input[2].end_line
    /\ Len(output.fused) = 2

\* The last call of applyContentChangeToTrackedOffsets was given tracked offsets with
\* 0 <= startOffset <= endOffset and a change of a range of the document.
WellFormedCall ==
    /\ input # Nil
    /\ 0 <= input.offsets.startOffset
    /\ input.offsets.startOffset <= input.offsets.endOffset
    /\ input.change.rangeOffset >= 0
    /\ input.change.rangeLength >= 0

\* C24: the transformed start offset is the old start if it is before the change's
\* start; the old start plus delta if it is after the change's end, or at the change's
\* end when the change is a pure insertion; and the change's start otherwise.
C24_StartTransformed ==
    WellFormedCall =>
        LET start == input.offsets.startOffset
            changeStart == input.change.rangeOffset
            changeEnd == input.change.rangeOffset + input.change.rangeLength
            delta == Len(input.change.text) - input.change.rangeLength
        IN  output.startOffset =
                IF start < changeStart THEN start
                ELSE IF start > changeEnd \/ (start = changeEnd /\ changeStart = changeEnd)
                THEN start + delta
                ELSE changeStart

\* A replacement that overlaps the start of the tracked range: {3, 6} and the change
\* {2, 3, "x"} give {2, 4}.
C24_OverlapCollapse ==
    /\ input = [offsets |-> Offsets(3, 6), change |-> Change(2, 3, <<"x">>)]
    /\ output = Offsets(2, 4)

\* C25: the transformed end offset is the old end if it is before the change's start;
\* the old end plus delta if it is at or after the change's end; and the change's
\* start plus the inserted length otherwise. An insertion strictly inside the tracked
\* range leaves the start and moves the end by the inserted length.
C25_EndTransformed ==
    WellFormedCall =>
        LET end == input.offsets.endOffset
            changeStart == input.change.rangeOffset
            changeEnd == input.change.rangeOffset + input.change.rangeLength
            L == Len(input.change.text)
        IN  /\ output.endOffset =
                  IF end < changeStart THEN end
                  ELSE IF end >= changeEnd THEN end + (L - input.change.rangeLength)
                  ELSE changeStart + L
            /\ (/\ input.change.rangeLength = 0
                /\ input.offsets.startOffset < changeStart
                /\ changeStart < end)
                   => output = Offsets(input.offsets.startOffset, end + L)

\* An insertion inside the tracked range: {3, 6} and the change {4, 0, "xy"} give {3, 8}.
C25_InsertionInside ==
    /\ input = [offsets |-> Offsets(3, 6), change |-> Change(4, 0, <<"x", "y">>)]
    /\ output = Offsets(3, 8)

\* C26: a change that removes nothing and inserts nothing, at any offset, leaves
\* tracked offsets with 0 <= startOffset <= endOffset as they are.
C26_NoOpChangeLeavesOffsets ==
    (/\ input # Nil
     /\ input.change.rangeLength = 0
     /\ input.change.text = <<>>
     /\ 0 <= input.offsets.startOffset
     /\ input.offsets.startOffset <= input.offsets.endOffset) =>
        output = input.offsets

\* An empty change at offset -1 was applied to the offsets {0, 6}.
C26_NoOpBelowZeroApplied ==
    /\ input = [offsets |-> Offsets(0, 6), change |-> Change(-1, 0, <<>>)]
    /\ output = Offsets(0, 6)

\* C27: whatever the tracked offsets and the change are, and after any number of
\* changes, the result has 0 <= startOffset <= endOffset.
C27_ResultWellFormed ==
    input # Nil => (0 <= output.startOffset /\ output.startOffset <= output.endOffset)

\* A change was applied to offsets whose start is negative and whose end is before
\* their start.
C27_MalformedOffsetsTransformed ==
    /\ input # Nil
    /\ input.offsets.endOffset < input.offsets.startOffset
    /\ input.offsets.endOffset < 0
    /\ input.change.rangeOffset < 0

\* The calls whose request is with the completion service or whose response is being
\* rendered.
IssuedCalls == { r \in Requests : req[r].pc \in {"network", "gate2a", "gate2b"} }

\* C28: a completion trigger advances the latest request id and aborts the request in
\* flight in one step, so in every state, and hence whenever a handler resumes, every
\* issued request that is not the latest has its abort signal set.
C28_SupersededRequestsAborted ==
    \A r \in IssuedCalls : r # latestRequestId => req[r].aborted

\* The first call awaits the service, aborted though its token is not cancelled, and
\* the second call has resumed once.
C28_AbortedBySecondTrigger ==
    /\ req[1].pc = "network"
    /\ req[1].aborted
    /\ ~req[1].token
    /\ req[2].pc = "gate1b"

\* C29: a call issues its request only in a step before which its token is not
\* cancelled and it is the latest call; a call that waits with a cancelled token, or
\* while it is not the latest, does not issue its request.
C29_IssuedOnlyIfLatestAndLive ==
    [][\A r \in Requests :
          /\ (req[r].pc # "network" /\ req'[r].pc = "network")
                => (~req[r].token /\ r = latestRequestId)
          /\ (req[r].pc = "debounce" /\ (req[r].token \/ r # latestRequestId))
                => req'[r].pc \in {"debounce", "done"}]_vars

\* The second call was superseded during its wait and returned without a request, and
\* the third call's request is with the service.
C29_SupersededDuringWait ==
    /\ req[2].pc = "done"
    /\ req[2].outcome = "superseded in wait"
    /\ req[3].pc = "network"

\* C30: when a call's debounce wait ends and the call issues its request, no
\* suppression condition holds for its document.
C30_GateEvaluatedAfterWait ==
    [][\A r \in Requests :
          (req[r].pc = "debounce" /\ req'[r].pc = "network")
             => ~SuppressionHolds(req[r].doc)]_vars

\* A suppression condition holds while a call that is the latest, with a live token,
\* waits for its debounce timer.
C30_SuppressedDuringWait ==
    \E r \in Requests :
        /\ req[r].pc = "debounce"
        /\ r = latestRequestId
        /\ ~req[r].token
        /\ SuppressionHolds(req[r].doc)

\* The candidates the suggestion queue holds.
QueuedCandidates ==
    IF queuedSuggestions = Nil THEN <<>> ELSE queuedSuggestions.suggestions

\* C31: between the user's acceptance of the inline item and the handling of its
\* accept command, the move of the cursor to the end of the accepted text leaves the
\* document's queued candidates in the queue, and when the accept command is handled
\* the queue still holds candidates and is flagged to be served by the next trigger.
C31_QueueSurvivesAcceptance ==
    [][(/\ acceptCommand # Nil
        /\ QueuedCandidates # <<>>
        /\ queuedSuggestions.uri = activeEditor
        /\ activeEditor' = activeEditor
        /\ text' = text
        /\ \/ acceptCommand' = Nil
           \/ /\ cursor' # cursor
              /\ cursor'[activeEditor] =
                     positionAt(text[activeEditor],
                                acceptCommand.startIndex + Len(acceptCommand.completion)))
          => /\ QueuedCandidates' # <<>>
             /\ acceptCommand' = Nil => shouldConsumeQueuedSuggestion']_vars

\* The accept command was handled first: the queue holds candidates and is flagged.
C31_QueueFlaggedAfterAccept ==
    /\ acceptCommand = Nil
    /\ QueuedCandidates # <<>>
    /\ shouldConsumeQueuedSuggestion

\* C32: every candidate the suggestion queue holds has 0 <= startIndex <= endIndex.
C32_QueuedOffsetsWellFormed ==
    \A i \in 1..Len(QueuedCandidates) :
        /\ 0 <= QueuedCandidates[i].startIndex
        /\ QueuedCandidates[i].startIndex <= QueuedCandidates[i].endIndex

\* C33: the suggestion queue holds no candidate whose completion is empty.
C33_NoEmptyCompletionQueued ==
    \A i \in 1..Len(QueuedCandidates) : QueuedCandidates[i].completion # <<>>

\* The call returned the item of candidate 1 and the queue holds candidate 2, which
\* replaces text after the cursor.
C33_SecondCandidateQueued ==
    /\ req[1].pc = "done"
    /\ req[1].ret # Nil
    /\ req[1].ret.id = 1
    /\ Len(QueuedCandidates) = 1
    /\ QueuedCandidates[1].id = 2
    /\ QueuedCandidates[1].startIndex < QueuedCandidates[1].endIndex

\* The accept command was handled and the queue holds a candidate that starts at -1.
C32_QueuedBelowZero ==
    /\ acceptCommand = Nil
    /\ \E i \in 1..Len(QueuedCandidates) : QueuedCandidates[i].startIndex = -1

\* Candidate c is what normalizeInlineResult makes of a result of call r.
FromResponseOf(r, c) ==
    \E k \in 1..Len(req[r].results) :
        c = normalizeInlineResult(text[req[r].doc], req[r].position, req[r].results[k])

\* C34: when another document becomes the active one, the queue holds no candidate
\* afterwards; when a call renders its response, the queue holds afterwards only
\* candidates of that response, for the call's document; a call serves a queued
\* candidate only from a queue of its own document, and the queue is shorter
\* afterwards, hence empty when the candidate was its last.
C34_QueueCleared ==
    [][/\ (/\ activeEditor' # activeEditor
           /\ activeEditor' # "none"
           /\ queuedSuggestions # Nil
           /\ queuedSuggestions.uri # activeEditor')
             => QueuedCandidates' = <<>>
       /\ \A r \in Requests :
            /\ (req[r].pc = "gate2b" /\ req'[r].outcome \in {"inline", "jump", "empty"})
                  => \/ QueuedCandidates' = <<>>
                     \/ /\ queuedSuggestions'.uri = req[r].doc
                        /\ \A i \in 1..Len(QueuedCandidates') :
                              FromResponseOf(r, QueuedCandidates'[i])
            /\ (req[r].pc = "gate1b" /\ (req'[r].outcome = "queued" \/ req'[r].served # "none"))
                  => /\ queuedSuggestions # Nil
                     /\ queuedSuggestions.uri = req[r].doc
                     /\ Len(QueuedCandidates') < Len(QueuedCandidates)]_vars

\* A call returned the last candidate of the queue, and the queue is empty.
C34_LastCandidateServed ==
    /\ \E r \in Requests : req[r].pc = "done" /\ req[r].outcome = "queued"
    /\ QueuedCandidates = <<>>
    /\ lastInlineEdit # Nil

\* The ids of the calls of provideInlineCompletionItems made so far.
AssignedIds == { r \in Requests : req[r].pc # "idle" }

\* C35: a completion trigger is given a request id greater than the id of every
\* earlier trigger, and latestRequestId is always the greatest id given so far.
C35_EpochsIncrease ==
    [][/\ \A r \in AssignedIds' \ AssignedIds : \A q \in AssignedIds : q < r
       /\ \A r \in AssignedIds' : r <= latestRequestId'
       /\ AssignedIds' # {} => latestRequestId' \in AssignedIds'
       /\ latestRequestId' >= latestRequestId
       /\ requestCounter' # requestCounter => latestRequestId' \in AssignedIds' \ AssignedIds]_vars

\* Three triggers were given the ids 1, 2 and 3, and the first two calls have returned.
C35_ThirdTrigger ==
    /\ AssignedIds = {1, 2, 3}
    /\ latestRequestId = 3
    /\ req[1].pc = "done"
    /\ req[2].pc = "done"
    /\ req[3].pc = "gate1a"

\* Text t with the range of a result replaced by its completion.
Applied(t, result) ==
    ReplaceRange(t, result.startIndex, result.endIndex, result.completion)

\* The result of the call starts before the cursor, and its completion begins with
\* the text between its start and the cursor and goes on after it: the call
\* re-anchors the result.
ReAnchors ==
    /\ input.result.startIndex < input.cursorOffset
    /\ StartsWith(input.result.completion,
                  getText(input.text, input.result.startIndex, input.cursorOffset))
    /\ Len(input.result.completion) > input.cursorOffset - input.result.startIndex

\* The re-anchored result of the call, before the suffix is trimmed.
ReAnchored ==
    trimmedResult(input.result, input.cursorOffset,
                  Slice(input.result.completion,
                        input.cursorOffset - input.result.startIndex,
                        Len(input.result.completion)))

\* C36: when normalizeInlineResult re-anchors a result, the re-anchored result
\* applied to the document gives the text that the result given applied to the
\* document gives.
C36_ReAnchoredEditIsSame ==
    (output # Nil /\ ReAnchors) => Applied(input.text, ReAnchored) = Applied(input.text, input.result)

\* A result that ends at the cursor was re-anchored, and no suffix was trimmed: the
\* result returned is the re-anchored one, and it makes the same text.
C36_ReAnchoredEndingAtCursor ==
    /\ output # Nil
    /\ ReAnchors
    /\ input.result.endIndex = input.cursorOffset
    /\ output.result = ReAnchored
    /\ Applied(input.text, ReAnchored) = Applied(input.text, input.result)


\* A suspended call of acceptJumpEdit other than the i-th that was made for the same
\* pending jump edit at the same version of the document.
SameEditAccepted(i, j) ==
    /\ j \in 1..Len(jumpAccepts)
    /\ j # i
    /\ jumpAccepts[j].pendingJumpEdit = jumpAccepts[i].pendingJumpEdit
    /\ jumpAccepts[j].version = jumpAccepts[i].version

LeftDebounce(r) ==
    \/ req[r].pc = "network"
    \/ (req[r].pc = "done" /\ req[r].outcome \in {"cancelled in wait", "superseded in wait"})

\* C38: a call in the debounce wait eventually leaves it, and it leaves it by issuing
\* its completion request unless its token was cancelled or a later trigger
\* arrived; so the last trigger, which no trigger follows, issues its request if its
\* token is not cancelled, whatever the earlier triggers do.
C38_LatestLeavesDebounce ==
    /\ \A r \in Requests : (req[r].pc = "debounce") ~> LeftDebounce(r)
    /\ (req[MaxCalls].pc = "debounce")
           ~> (req[MaxCalls].pc = "network"
                  \/ (req[MaxCalls].pc = "done"
                         /\ req[MaxCalls].outcome = "cancelled in wait"))

\* The last trigger has left the debounce wait and issued its request while the two
\* triggers before it are still in their waits.
C38_LastIssuedBeforeEarlier ==
    /\ req[1].pc = "debounce"
    /\ req[2].pc = "debounce"
    /\ req[MaxCalls].pc = "network"
    /\ inFlightRequest # Nil
    /\ inFlightRequest.id = MaxCalls


\* The length of the longest common prefix of lines a and b.
LongestCommonPrefix(a, b) ==
    CHOOSE k \in 0..Min(Len(a), Len(b)) :
        /\ SubSeq(a, 1, k) = SubSeq(b, 1, k)
        /\ \A m \in (k + 1)..Min(Len(a), Len(b)) : SubSeq(a, 1, m) # SubSeq(b, 1, m)

\* C39: for two different lines getLineDiff returns a prefix length p and a suffix
\* length s with p + s <= min(len(old), len(new)), p the length of the longest
\* common prefix, the last s characters of the lines equal, oldChanged =
\* old[p, len(old) - s) and newChanged = new[p, len(new) - s): each line is its
\* prefix, its changed part and its suffix, without overlap.
C39_LineDiffPartitions ==
    (output # Nil /\ input.oldLine # input.newLine)
        => LET old == input.oldLine
               new == input.newLine
               diff == output.result
               p == diff.prefixLen
               s == diff.suffixLen
           IN  /\ diff # Nil
               /\ p >= 0
               /\ s >= 0
               /\ p + s <= Min(Len(old), Len(new))
               /\ p = LongestCommonPrefix(old, new)
               /\ SubSeq(old, Len(old) - s + 1, Len(old)) = SubSeq(new, Len(new) - s + 1, Len(new))
               /\ diff.oldChanged = SubSeq(old, p + 1, Len(old) - s)
               /\ diff.newChanged = SubSeq(new, p + 1, Len(new) - s)
               /\ old = SubSeq(old, 1, p) \o diff.oldChanged \o SubSeq(old, Len(old) - s + 1, Len(old))
               /\ new = SubSeq(new, 1, p) \o diff.newChanged \o SubSeq(new, Len(new) - s + 1, Len(new))

\* The diff of "aa" and "a": the prefix takes the whole of the shorter line, and
\* the suffix loop, which could match the last characters, stops at once.
C39_SuffixStopsAtPrefix ==
    /\ output # Nil
    /\ input.oldLine = <<"a", "a">>
    /\ input.newLine = <<"a">>
    /\ output.result = [oldChanged |-> <<"a">>, newChanged |-> <<>>,
                         prefixLen |-> 1, suffixLen |-> 0]

\* C40: for two different texts computeReplacementSpan returns a span with
\* 0 <= start <= end <= len(current) such that the current text with [start, end)
\* replaced by the replacement is the updated text; for equal texts it returns null.
C40_SpanRebuildsUpdated ==
    output # Nil
        => LET current == input.currentText
               updated == input.updatedText
               span == output.result
           IN  IF current = updated
               THEN span = Nil
               ELSE /\ span # Nil
                    /\ 0 <= span.start
                    /\ span.start <= span.end
                    /\ span.end <= Len(current)
                    /\ SubSeq(current, 1, span.start) \o span.replacement
                          \o SubSeq(current, span.end + 1, Len(current)) = updated

\* The span from "aa" to "a": the common prefix takes the whole updated text, and
\* the second loop stops although the last characters are equal.
C40_SpanOfShortenedText ==
    /\ output # Nil
    /\ input.currentText = <<"a", "a">>
    /\ input.updatedText = <<"a">>
    /\ output.result = [start |-> 1, end |-> 2, replacement |-> <<>>]

====
